---------------------------- MODULE Spec2Model ----------------------------
(***************************************************************************)
(* A model of the llmo-content generation and export services.             *)
(*                                                                         *)
(* A JavaScript string is a sequence of items; an item is one character    *)
(* ("a", "{", "\n") or, in the exporter's output only, one fixed piece of  *)
(* template or entity text ("&lt;", "<h1>").  The string is the            *)
(* concatenation of its items.                                             *)
(***************************************************************************)
EXTENDS Integers, Sequences, FiniteSets, TLC

VARIABLES
    response,     \* Text Recovery: the raw reply handed to extractJsonFromResponse
    recovered,    \* Text Recovery: the string it returned
    rpc,          \* Text Recovery: "start" before the call, "done" after it
    exportReq,    \* Export endpoint: the request body {format, article, options}
    exportRes,    \* Export endpoint: the response (status, headers, body)
    epc,          \* Export endpoint: "start" before POST runs, "done" after it
    apiReq,       \* Article endpoint: the request body
    apc,          \* Article endpoint: where POST stands ("start", "awaitCompletion",
                  \*   "awaitSeo", "done")
    reply,        \* Article endpoint: how the hosted completion call settled
    generated,    \* Article endpoint: the article generateOptimizedArticleWithAI returned
    seoResult,    \* Article endpoint: how the dependent metadata call settled
    seoReq,       \* Article endpoint: the body sent to the metadata endpoint
    calls,        \* Article endpoint: the calls issued so far (completion, metadata)
    caught,       \* Article endpoint: the message of the error POST caught
    apiRes,       \* Article endpoint: the response
    svc,          \* Title and metadata endpoints: the one called ("titles", "seo")
    svcReq,       \* Title and metadata endpoints: the request body
    svcpc,        \* Title and metadata endpoints: where POST stands ("start",
                  \*   "awaitCompletion", "done")
    svcReply,     \* Title and metadata endpoints: how the completion call settled
    svcCalls,     \* Title and metadata endpoints: the completion calls issued so far
    svcCaught,    \* Title and metadata endpoints: the message of the error POST caught
    svcRes,       \* Title and metadata endpoints: the response
    page,         \* Page: the state hooks of Home (keyword, overview, generatedTitles,
                  \*   selectedTitle, generatedArticle, isGeneratingTitles,
                  \*   isGeneratingArticle, generateSEO, baseUrl)
    invocations,  \* Page: the calls of generateTitles and generateArticle that have
                  \*   not returned yet, each with the await it stands at
    built,        \* Prompts: the messages built so far, each with its task, the
                  \*   input fields and the day on which it was built
    net           \* Page: the body of the last request sent to each endpoint and how
                  \*   that request settled

recVars == <<response, recovered, rpc>>
expVars == <<exportReq, exportRes, epc>>
apiVars == <<apiReq, apc, reply, generated, seoReq, seoResult, calls, caught, apiRes>>
svcVars == <<svc, svcReq, svcpc, svcReply, svcCalls, svcCaught, svcRes>>
pageVars == <<page, invocations, net>>
promptVars == <<built>>
vars == <<response, recovered, rpc, exportReq, exportRes, epc,
          apiReq, apc, reply, generated, seoReq, seoResult, calls, caught, apiRes,
          svc, svcReq, svcpc, svcReply, svcCalls, svcCaught, svcRes,
          page, invocations, net, built>>

----------------------------------------------------------------------------
(* Bounds of the model *)

\* A Text Recovery input is a concatenation of at most MaxPieces pieces.
MaxPieces == 5
\* A text field of an exported article holds at most MaxTextLen characters.
MaxTextLen == 2
\* An exported article has MaxSections sections of MaxSubheadings subheadings.
MaxSections == 1
MaxSubheadings == 1
\* The sections array of an upstream reply holds at most MaxReplySections elements.
MaxReplySections == 1

----------------------------------------------------------------------------
(* JavaScript string primitives *)

SetMin(S) == CHOOSE x \in S : \A y \in S : x <= y
SetMax(S) == CHOOSE x \in S : \A y \in S : x >= y

\* The white space of String.prototype.trim and of the regular expression
\* class \s that the inputs can hold.
WS == {" ", "\n", "\t"}

RECURSIVE skipWs(_, _), skipWsBack(_, _)
\* The first position from i on that holds no white space (Len(s) + 1 if none)
skipWs(s, i) == IF i > Len(s) \/ s[i] \notin WS THEN i ELSE skipWs(s, i + 1)
\* The last position up to i that holds no white space (0 if none)
skipWsBack(s, i) == IF i < 1 \/ s[i] \notin WS THEN i ELSE skipWsBack(s, i - 1)

\* String.prototype.trim
trim(s) == SubSeq(s, skipWs(s, 1), skipWsBack(s, Len(s)))

\* pat occurs in s at the 1-based position i
MatchAt(s, i, pat) ==
    /\ i >= 1
    /\ i + Len(pat) - 1 <= Len(s)
    /\ SubSeq(s, i, i + Len(pat) - 1) = pat

\* String.prototype.indexOf / lastIndexOf of one character: 0-based, -1 when absent
RECURSIVE scanFor(_, _, _), scanBackFor(_, _, _)
scanFor(s, c, i) ==
    IF i > Len(s) THEN 0 ELSE IF s[i] = c THEN i ELSE scanFor(s, c, i + 1)
scanBackFor(s, c, i) ==
    IF i < 1 THEN 0 ELSE IF s[i] = c THEN i ELSE scanBackFor(s, c, i - 1)

indexOf(s, c) == scanFor(s, c, 1) - 1
lastIndexOf(s, c) == scanBackFor(s, c, Len(s)) - 1

\* String.prototype.substring(start, end) for 0 <= start <= end <= length
substring(s, start, end) == SubSeq(s, start + 1, end)

startsWith(s, c) == Len(s) >= 1 /\ s[1] = c
endsWith(s, c) == Len(s) >= 1 /\ s[Len(s)] = c

----------------------------------------------------------------------------
(* JSON.parse: a recursive-descent reader of the JSON grammar.  A value is *)
(* [t |-> its type, v |-> its content]: the characters of a string or      *)
(* number, the elements of an array, the <<key, value>> members of an      *)
(* object in source order.                                                 *)

Undefined == [t |-> "undefined", v |-> <<>>]
JNull == [t |-> "null", v |-> <<>>]
JTrue == [t |-> "bool", v |-> <<"true">>]
JFalse == [t |-> "bool", v |-> <<"false">>]
JStr(chars) == [t |-> "str", v |-> chars]
JNum(chars) == [t |-> "num", v |-> chars]
JArr(elems) == [t |-> "arr", v |-> elems]
JObj(members) == [t |-> "obj", v |-> members]

Digits == {"0", "1", "2", "3", "4", "5", "6", "7", "8", "9"}
\* Characters that may not appear raw inside a JSON string
ControlChars == {"\n", "\t"}
\* Characters that may follow a backslash inside a JSON string
Escapable == {"\"", "\\", "/", "n", "t"}
Unescape(c) == CASE c = "n" -> "\n" [] c = "t" -> "\t" [] OTHER -> c

ParseFail == [ok |-> FALSE, pos |-> 0, val |-> Undefined]
ParseOk(p, value) == [ok |-> TRUE, pos |-> p, val |-> value]

RECURSIVE scanString(_, _, _)
\* i is the position after the opening quote
scanString(s, i, acc) ==
    IF i > Len(s) THEN ParseFail
    ELSE IF s[i] = "\"" THEN ParseOk(i + 1, JStr(acc))
    ELSE IF s[i] \in ControlChars THEN ParseFail
    ELSE IF s[i] = "\\"
         THEN IF i + 1 <= Len(s) /\ s[i + 1] \in Escapable
              THEN scanString(s, i + 2, Append(acc, Unescape(s[i + 1])))
              ELSE ParseFail
    ELSE scanString(s, i + 1, Append(acc, s[i]))

\* An integer: -?(0|[1-9][0-9]*).  No input of the model holds a fraction or
\* an exponent.
scanNumber(s, i) ==
    LET d == IF s[i] = "-" THEN i + 1 ELSE i
        stop == {j \in d..Len(s) : s[j] \notin Digits}
        e == IF stop = {} THEN Len(s) + 1 ELSE SetMin(stop)
    IN  IF e = d THEN ParseFail
        ELSE IF s[d] = "0" /\ e > d + 1 THEN ParseOk(d + 1, JNum(SubSeq(s, i, d)))
        ELSE ParseOk(e, JNum(SubSeq(s, i, e - 1)))

RECURSIVE parseValue(_, _), parseMembers(_, _, _), parseElements(_, _, _)

parseValue(s, i) ==
    LET j == skipWs(s, i)
    IN  IF j > Len(s) THEN ParseFail
        ELSE IF s[j] = "{"
             THEN LET k == skipWs(s, j + 1)
                  IN  IF k <= Len(s) /\ s[k] = "}"
                      THEN ParseOk(k + 1, JObj(<<>>))
                      ELSE parseMembers(s, k, <<>>)
        ELSE IF s[j] = "["
             THEN LET k == skipWs(s, j + 1)
                  IN  IF k <= Len(s) /\ s[k] = "]"
                      THEN ParseOk(k + 1, JArr(<<>>))
                      ELSE parseElements(s, k, <<>>)
        ELSE IF s[j] = "\"" THEN scanString(s, j + 1, <<>>)
        ELSE IF s[j] \in Digits \cup {"-"} THEN scanNumber(s, j)
        ELSE IF MatchAt(s, j, <<"t", "r", "u", "e">>) THEN ParseOk(j + 4, JTrue)
        ELSE IF MatchAt(s, j, <<"f", "a", "l", "s", "e">>) THEN ParseOk(j + 5, JFalse)
        ELSE IF MatchAt(s, j, <<"n", "u", "l", "l">>) THEN ParseOk(j + 4, JNull)
        ELSE ParseFail

\* i is the position of a member's key; acc the members read so far
parseMembers(s, i, acc) ==
    IF i > Len(s) \/ s[i] # "\"" THEN ParseFail
    ELSE LET key == scanString(s, i + 1, <<>>)
         IN  IF ~key.ok THEN ParseFail
             ELSE LET c == skipWs(s, key.pos)
                  IN  IF c > Len(s) \/ s[c] # ":" THEN ParseFail
                      ELSE LET mv == parseValue(s, c + 1)
                           IN  IF ~mv.ok THEN ParseFail
                               ELSE LET e == skipWs(s, mv.pos)
                                        more == Append(acc, <<key.val.v, mv.val>>)
                                    IN  IF e > Len(s) THEN ParseFail
                                        ELSE IF s[e] = "}" THEN ParseOk(e + 1, JObj(more))
                                        ELSE IF s[e] = ","
                                             THEN parseMembers(s, skipWs(s, e + 1), more)
                                        ELSE ParseFail

\* i is the position of an element; acc the elements read so far
parseElements(s, i, acc) ==
    LET ev == parseValue(s, i)
    IN  IF ~ev.ok THEN ParseFail
        ELSE LET e == skipWs(s, ev.pos)
                 more == Append(acc, ev.val)
             IN  IF e > Len(s) THEN ParseFail
                 ELSE IF s[e] = "]" THEN ParseOk(e + 1, JArr(more))
                 ELSE IF s[e] = "," THEN parseElements(s, skipWs(s, e + 1), more)
                 ELSE ParseFail

\* JSON.parse(text): ok is FALSE where JSON.parse throws a SyntaxError
JSONparse(text) ==
    LET whole(r) == IF r.ok /\ skipWs(text, r.pos) > Len(text) THEN r ELSE ParseFail
    IN  whole(parseValue(text, 1))

----------------------------------------------------------------------------
(* Text Recovery *)

\* The backquote character, which a TLA+ string literal cannot hold
BQ == "BACKQUOTE"
Fence == <<BQ, BQ, BQ>>
JsonFence == <<BQ, BQ, BQ, "j", "s", "o", "n">>

NoMatch == [found |-> FALSE, group |-> <<>>]

\* response.match(/<open>\s*([\s\S]*?)\s*<fence>/): the leftmost start at which
\* the pattern matches; there the first \s* is greedy (the longest run of
\* white space that still lets the rest match), the group is lazy (the
\* shortest that lets the rest match).  group is capture group 1.
fenceMatch(s, open) ==
    LET n == Len(s)
        k == Len(open)
        \* \s*<fence> matches at p
        \* (a fence holds no white space, so the run of \s* ends where it starts)
        Closes(p) == MatchAt(s, skipWs(s, p), Fence)
        Run(p) == skipWs(s, p) - p
        Cands(i) == {wc \in (0..Run(i + k)) \X (0..n) :
                        /\ i + k + wc[1] + wc[2] <= n + 1
                        /\ Closes(i + k + wc[1] + wc[2])}
        starts == {i \in 1..n : MatchAt(s, i, open) /\ Cands(i) # {}}
    IN  IF starts = {} THEN NoMatch
        ELSE LET i == SetMin(starts)
                 cands == Cands(i)
                 w == SetMax({wc[1] : wc \in cands})
                 c == SetMin({wc[2] : wc \in {x \in cands : x[1] = w}})
             IN  [found |-> TRUE, group |-> SubSeq(s, i + k + w, i + k + w + c - 1)]

\* lines 17-23: the direct parse
directParse(resp) == JSONparse(trim(resp)).ok

\* braceScan with the closing brace left out of the substring
braceScan_dropsLastBrace(resp) ==
    LET jsonStart == indexOf(resp, "{")
        jsonEnd == lastIndexOf(resp, "}")
    IN  IF jsonStart # -1 /\ jsonEnd # -1 /\ jsonEnd > jsonStart
        THEN substring(resp, jsonStart, jsonEnd)
        ELSE trim(resp)

\* braceScan whose fallback returns the text untrimmed
braceScan_untrimmedFallback(resp) ==
    LET jsonStart == indexOf(resp, "{")
        jsonEnd == lastIndexOf(resp, "}")
    IN  IF jsonStart # -1 /\ jsonEnd # -1 /\ jsonEnd > jsonStart
        THEN substring(resp, jsonStart, jsonEnd + 1)
        ELSE resp

\* lines 40-48: the brace scan, then the fallback
braceScan(resp) ==
    LET jsonStart == indexOf(resp, "{")
        jsonEnd == lastIndexOf(resp, "}")
    IN  IF jsonStart # -1 /\ jsonEnd # -1 /\ jsonEnd > jsonStart
        THEN substring(resp, jsonStart, jsonEnd + 1)
        ELSE trim(resp)

\* codeBlock without the untagged fenced-block step
codeBlock_skipped(resp) == braceScan(resp)

\* lines 31-38: the fenced block without a language tag, then the rest
codeBlock(resp) ==
    LET pick(found, content) ==
            IF found /\ startsWith(content, "{") /\ endsWith(content, "}")
            THEN content
            ELSE braceScan(resp)
        test(codeBlockMatch) == pick(codeBlockMatch.found, trim(codeBlockMatch.group))
    IN  test(fenceMatch(resp, Fence))

\* jsonBlock without the json-tagged step
jsonBlock_skipped(resp) == codeBlock(resp)

\* lines 25-29: the fenced block tagged json, then the rest
jsonBlock(resp) ==
    LET test(jsonMatch) == IF jsonMatch.found THEN trim(jsonMatch.group) ELSE codeBlock(resp)
    IN  test(fenceMatch(resp, JsonFence))

\* extractJsonFromResponse without the direct parse
extractJson_noDirectParse(resp) == jsonBlock(resp)

extractJsonFromResponse(resp) ==
    IF directParse(resp) THEN trim(resp) ELSE jsonBlock(resp)

\* extractJsonFromResponseTitles that returns the reply untrimmed when it
\* parses as it is
extractJsonFromResponseTitles_untrimmed(resp) ==
    LET jsonStart == indexOf(resp, "{")
        jsonEnd == lastIndexOf(resp, "}")
        scanned(start, end) ==
            IF start # -1 /\ end # -1 /\ end > start
            THEN substring(resp, start, end + 1)
            ELSE trim(resp)
        untagged(codeBlockMatch, content) ==
            IF codeBlockMatch.found /\ startsWith(content, "{") /\ endsWith(content, "}")
            THEN content
            ELSE scanned(jsonStart, jsonEnd)
        unfenced(codeBlockMatch) == untagged(codeBlockMatch, trim(codeBlockMatch.group))
        tagged(jsonMatch) ==
            IF jsonMatch.found
            THEN trim(jsonMatch.group)
            ELSE unfenced(fenceMatch(resp, Fence))
    IN  IF JSONparse(trim(resp)).ok
        THEN resp
        ELSE tagged(fenceMatch(resp, JsonFence))

\* Lines 11-44 of part_001: the copy of extractJsonFromResponse in the title
\* service, read from top to bottom
extractJsonFromResponseTitles(resp) ==
    LET jsonStart == indexOf(resp, "{")
        jsonEnd == lastIndexOf(resp, "}")
        scanned(start, end) ==
            IF start # -1 /\ end # -1 /\ end > start
            THEN substring(resp, start, end + 1)
            ELSE trim(resp)
        untagged(codeBlockMatch, content) ==
            IF codeBlockMatch.found /\ startsWith(content, "{") /\ endsWith(content, "}")
            THEN content
            ELSE scanned(jsonStart, jsonEnd)
        unfenced(codeBlockMatch) == untagged(codeBlockMatch, trim(codeBlockMatch.group))
        tagged(jsonMatch) ==
            IF jsonMatch.found
            THEN trim(jsonMatch.group)
            ELSE unfenced(fenceMatch(resp, Fence))
    IN  IF JSONparse(trim(resp)).ok
        THEN trim(resp)
        ELSE tagged(fenceMatch(resp, JsonFence))

\* Lines 201-234 of part_001: the copy of extractJsonFromResponse in the
\* metadata service, read from top to bottom
extractJsonFromResponseSeo(resp) ==
    LET jsonStart == indexOf(resp, "{")
        jsonEnd == lastIndexOf(resp, "}")
        scanned(start, end) ==
            IF start # -1 /\ end # -1 /\ end > start
            THEN substring(resp, start, end + 1)
            ELSE trim(resp)
        untagged(codeBlockMatch, content) ==
            IF codeBlockMatch.found /\ startsWith(content, "{") /\ endsWith(content, "}")
            THEN content
            ELSE scanned(jsonStart, jsonEnd)
        unfenced(codeBlockMatch) == untagged(codeBlockMatch, trim(codeBlockMatch.group))
        tagged(jsonMatch) ==
            IF jsonMatch.found
            THEN trim(jsonMatch.group)
            ELSE unfenced(fenceMatch(resp, Fence))
    IN  IF JSONparse(trim(resp)).ok
        THEN trim(resp)
        ELSE tagged(fenceMatch(resp, JsonFence))

----------------------------------------------------------------------------
(* Text Recovery as a state machine: one call on one input *)

Pieces == { JsonFence, Fence, <<"{">>, <<"}">>, <<"{", "}">>, <<" ">>, <<"\"">> }

RECURSIVE Concats(_)
Concats(n) ==
    IF n = 0 THEN {<<>>}
    ELSE LET shorter == Concats(n - 1)
         IN  shorter \cup {p \o t : p \in Pieces, t \in shorter}

\* The export endpoint before any request
NoExportReq == [format |-> Undefined]
NoExportRes == [status |-> 0]
ExportIdle ==
    /\ exportReq = NoExportReq
    /\ exportRes = NoExportRes
    /\ epc = "idle"

\* The page as Home's useState calls leave it, with no request sent
NoTitle == [t |-> "null", id |-> <<>>, title |-> <<>>, description |-> <<>>]
NoSent == [sent |-> FALSE, outcome |-> "none", keyword |-> <<>>, overview |-> <<>>,
           title |-> NoTitle, generateSEO |-> FALSE, baseUrl |-> Undefined]
InitialPage ==
    [keyword |-> <<>>, overview |-> <<>>, generatedTitles |-> <<>>,
     selectedTitle |-> NoTitle, generatedArticle |-> JNull,
     isGeneratingTitles |-> FALSE, isGeneratingArticle |-> FALSE,
     generateSEO |-> TRUE, baseUrl |-> <<>>]
PageIdle ==
    /\ page = InitialPage
    /\ invocations = <<>>
    /\ net = [titles |-> NoSent, article |-> NoSent]

\* No prompt built yet
PromptsIdle == built = <<>>

\* The article endpoint before any request
NoReply == [kind |-> "none", text |-> <<>>]
NoSeoResult == [kind |-> "none", data |-> Undefined]
NoCalls == [completion |-> 0, metadata |-> 0]
NoApiRes == [status |-> 0, article |-> Undefined, error |-> ""]
NoSeoReq == [title |-> Undefined, content |-> <<>>, keyword |-> Undefined]
NoApiReq == [readable |-> FALSE, title |-> Undefined, keyword |-> Undefined,
             generateSEO |-> Undefined]
ApiIdle ==
    /\ apiReq = NoApiReq
    /\ apc = "idle"
    /\ reply = NoReply
    /\ generated = Undefined
    /\ seoReq = NoSeoReq
    /\ seoResult = NoSeoResult
    /\ calls = NoCalls
    /\ caught = <<>>
    /\ apiRes = NoApiRes

\* The title and metadata endpoints before any request
NoSvcReq == [readable |-> FALSE, title |-> Undefined, keyword |-> Undefined]
NoSvcRes == [status |-> 0, body |-> Undefined, error |-> ""]
SvcIdle ==
    /\ svc = "none"
    /\ svcReq = NoSvcReq
    /\ svcpc = "idle"
    /\ svcReply = NoReply
    /\ svcCalls = 0
    /\ svcCaught = <<>>
    /\ svcRes = NoSvcRes

InitRecovery ==
    /\ response \in Concats(MaxPieces)
    /\ recovered = <<>>
    /\ rpc = "start"
    /\ ExportIdle
    /\ PageIdle
    /\ PromptsIdle
    /\ ApiIdle
    /\ SvcIdle

ExtractJson ==
    /\ rpc = "start"
    /\ recovered' = extractJsonFromResponse(response)
    /\ rpc' = "done"
    /\ UNCHANGED response
    /\ UNCHANGED expVars
    /\ UNCHANGED pageVars
    /\ UNCHANGED promptVars
    /\ UNCHANGED apiVars
    /\ UNCHANGED svcVars

NextRecovery == ExtractJson

SpecRecovery == InitRecovery /\ [][NextRecovery]_vars

----------------------------------------------------------------------------
(* Text Recovery: what the claims speak of, stated on the text itself *)

Count(s, c) == Cardinality({i \in 1..Len(s) : s[i] = c})

FenceAt(s) == {i \in 1..Len(s) : MatchAt(s, i, Fence)}

\* A fenced block: an opening fence at i and a closing fence at j after it
Blocks(s) == {b \in FenceAt(s) \X FenceAt(s) : b[2] >= b[1] + Len(Fence)}
HasFencedBlock(s) == Blocks(s) # {}
Inner(s, b) == SubSeq(s, b[1] + Len(Fence), b[2] - 1)
Braced(s) == startsWith(s, "{") /\ endsWith(s, "}")

\* The leftmost fenced block: the first fence and the next fence after it
FirstBlock(s) ==
    LET i == SetMin(FenceAt(s))
    IN  <<i, SetMin({j \in FenceAt(s) : j >= i + Len(Fence)})>>

\* The json-tagged blocks: a fence followed by json at i, a closing fence at j
JsonBlocks(s) == {b \in Blocks(s) : /\ MatchAt(s, b[1], JsonFence)
                                    /\ b[2] >= b[1] + Len(JsonFence)}
HasJsonBlock(s) == JsonBlocks(s) # {}
FirstJsonBlockInner(s) ==
    LET i == SetMin({b[1] : b \in JsonBlocks(s)})
        j == SetMin({b[2] : b \in {x \in JsonBlocks(s) : x[1] = i}})
    IN  SubSeq(s, i + Len(JsonFence), j - 1)

\* A "{" occurs before the last "}"
BraceBeforeLastBrace(s) ==
    \E i, j \in 1..Len(s) : i < j /\ s[i] = "{" /\ s[j] = "}"

DirectParses(s) == JSONparse(trim(s)).ok

\* C1: when the trimmed input parses as JSON, Text Recovery returns exactly
\* the trimmed input, whatever fences or braces the text holds.
C1_DirectParseWins ==
    (rpc = "done" /\ DirectParses(response)) => recovered = trim(response)

\* C1 witness: a JSON text that holds a json-tagged fenced block and white
\* space around it was returned trimmed.
C1_Witness ==
    /\ rpc = "done"
    /\ DirectParses(response)
    /\ HasJsonBlock(response)
    /\ response # trim(response)
    /\ recovered = trim(response)

\* C2: when the direct parse fails and the text holds a json-tagged fenced
\* block, Text Recovery returns exactly the trimmed inner content of the
\* first such block, whatever braces the prose around it holds.
C2_JsonFenceWins ==
    (rpc = "done" /\ ~DirectParses(response) /\ HasJsonBlock(response))
        => recovered = trim(FirstJsonBlockInner(response))

\* C2 witness: the block's content was returned although the text around
\* the block holds an unmatched brace.
C2_Witness ==
    /\ rpc = "done"
    /\ ~DirectParses(response)
    /\ HasJsonBlock(response)
    /\ Count(response, "{") # Count(response, "}")
    /\ recovered = <<"{", "}">>

\* C3 as stated: when the direct parse fails and there is no json-tagged
\* block, if ANY fenced block has trimmed inner content that starts with "{"
\* and ends with "}", Text Recovery returns the inner content of such a block.
C3_AnyBracedBlock ==
    (/\ rpc = "done"
     /\ ~DirectParses(response)
     /\ ~HasJsonBlock(response)
     /\ \E b \in Blocks(response) : Braced(trim(Inner(response, b))))
        => \E b \in Blocks(response) :
              /\ Braced(trim(Inner(response, b)))
              /\ recovered \in {Inner(response, b), trim(Inner(response, b))}

\* C3 as amended: when the direct parse fails and there is no json-tagged
\* block, if the LEFTMOST fenced block has trimmed inner content that starts
\* with "{" and ends with "}", Text Recovery returns that trimmed content.
C3_FirstBracedBlock ==
    (/\ rpc = "done"
     /\ ~DirectParses(response)
     /\ ~HasJsonBlock(response)
     /\ HasFencedBlock(response)
     /\ Braced(trim(Inner(response, FirstBlock(response)))))
        => recovered = trim(Inner(response, FirstBlock(response)))

\* C3 witness: the leftmost block's content was returned although a brace
\* outside the block would have widened the brace scan.
C3_Witness ==
    /\ rpc = "done"
    /\ ~DirectParses(response)
    /\ ~HasJsonBlock(response)
    /\ HasFencedBlock(response)
    /\ Braced(trim(Inner(response, FirstBlock(response))))
    /\ Count(response, "{") > Count(recovered, "{")
    /\ recovered = trim(Inner(response, FirstBlock(response)))

\* C4: when the direct parse fails, the text has no fenced block and a "{"
\* occurs before the last "}", Text Recovery returns the text from the first
\* "{" to the last "}" inclusive.
C4_BraceScan ==
    (/\ rpc = "done"
     /\ ~DirectParses(response)
     /\ ~HasFencedBlock(response)
     /\ BraceBeforeLastBrace(response))
        => LET first == SetMin({i \in 1..Len(response) : response[i] = "{"})
               last == SetMax({i \in 1..Len(response) : response[i] = "}"})
           IN  recovered = [i \in 1..(last - first + 1) |-> response[first + i - 1]]

\* C4 witness: the brace scan cut text away at both ends.
C4_Witness ==
    /\ rpc = "done"
    /\ ~DirectParses(response)
    /\ ~HasFencedBlock(response)
    /\ BraceBeforeLastBrace(response)
    /\ response[1] \notin WS \cup {"{"}
    /\ response[Len(response)] \notin WS \cup {"}"}
    /\ startsWith(recovered, "{")
    /\ endsWith(recovered, "}")

\* C5: when the direct parse fails and the text has no fenced block and no
\* "{" followed later by a "}", Text Recovery returns the trimmed input.
C5_Fallback ==
    (/\ rpc = "done"
     /\ ~DirectParses(response)
     /\ ~HasFencedBlock(response)
     /\ ~BraceBeforeLastBrace(response))
        => recovered = trim(response)

\* C5 witness: a text with braces in the wrong order and white space around
\* it was returned trimmed.
C5_Witness ==
    /\ rpc = "done"
    /\ ~DirectParses(response)
    /\ ~HasFencedBlock(response)
    /\ ~BraceBeforeLastBrace(response)
    /\ Count(response, "{") > 0
    /\ Count(response, "}") > 0
    /\ response # trim(response)
    /\ recovered = trim(response)

----------------------------------------------------------------------------
(* JavaScript values in the exporter *)

\* The truthiness of a value (!x is its negation)
Truthy(x) ==
    CASE x.t \in {"undefined", "null"} -> FALSE
      [] x.t = "str" -> x.v # <<>>
      [] x.t = "num" -> x.v \notin {<<"0">>, <<"-", "0">>}
      [] x.t = "bool" -> x.v = <<"true">>
      [] OTHER -> TRUE

RECURSIVE ToStr(_), joinItems(_, _)
\* String(x), as a template literal interpolates x
ToStr(x) ==
    CASE x.t \in {"str", "num", "bool"} -> x.v
      [] x.t = "undefined" -> <<"undefined">>
      [] x.t = "null" -> <<"null">>
      [] x.t = "arr" -> joinItems(x.v, <<",">>)
      [] OTHER -> <<"[object Object]">>

\* Array.prototype.join: null and undefined elements give the empty string
joinItems(elems, sep) ==
    IF elems = <<>> THEN <<>>
    ELSE LET first == IF elems[1].t \in {"undefined", "null"} THEN <<>> ELSE ToStr(elems[1])
         IN  IF Len(elems) = 1 THEN first
             ELSE first \o sep \o joinItems(Tail(elems), sep)

\* Array.prototype.map over the elements of an array value
mapQuoted(elems) == [i \in 1..Len(elems) |-> JStr(<<"\"">> \o ToStr(elems[i]) \o <<"\"">>)]

\* JSON.stringify's escapes inside a string
jsonQuote(chars) ==
    LET esc(c) == CASE c = "\"" -> <<"\\", "\"">>
                    [] c = "\\" -> <<"\\", "\\">>
                    [] c = "\n" -> <<"\\", "n">>
                    [] c = "\t" -> <<"\\", "t">>
                    [] OTHER -> <<c>>
        F[i \in 0..Len(chars)] == IF i = 0 THEN <<>> ELSE F[i - 1] \o esc(chars[i])
    IN  <<"\"">> \o F[Len(chars)] \o <<"\"">>

indentOf(level) == [i \in 1..(2 * level) |-> " "]

RECURSIVE stringify(_, _), stringifyAll(_, _, _)
\* JSON.stringify(x, null, 2) of a JSON value, at nesting depth level
stringify(x, level) ==
    CASE x.t = "str" -> jsonQuote(x.v)
      [] x.t \in {"num", "bool"} -> x.v
      [] x.t = "null" -> <<"null">>
      [] x.t = "arr" ->
            IF x.v = <<>> THEN <<"[", "]">>
            ELSE <<"[", "\n">> \o stringifyAll(x, 1, level + 1)
                    \o <<"\n">> \o indentOf(level) \o <<"]">>
      [] OTHER ->
            IF x.v = <<>> THEN <<"{", "}">>
            ELSE <<"{", "\n">> \o stringifyAll(x, 1, level + 1)
                    \o <<"\n">> \o indentOf(level) \o <<"}">>

\* The elements or members of x from the i-th on, one per line
stringifyAll(x, i, level) ==
    LET one == IF x.t = "arr" THEN stringify(x.v[i], level)
               ELSE jsonQuote(x.v[i][1]) \o <<":", " ">> \o stringify(x.v[i][2], level)
    IN  indentOf(level) \o one
           \o (IF i = Len(x.v) THEN <<>>
               ELSE <<",", "\n">> \o stringifyAll(x, i + 1, level))

----------------------------------------------------------------------------
(* escapeHtml, lines 310-319 *)

escapeMap ==
    ("&" :> "&amp;") @@ ("<" :> "&lt;") @@ (">" :> "&gt;")
        @@ ("\"" :> "&quot;") @@ ("'" :> "&#039;")

\* escapeHtml with the g flag left off the pattern: only the first match is replaced
escapeHtml_firstOnly(text) ==
    LET hits == {i \in 1..Len(text) : text[i] \in DOMAIN escapeMap}
    IN  [i \in 1..Len(text) |->
            IF hits # {} /\ i = SetMin(hits) THEN escapeMap[text[i]] ELSE text[i]]

\* text.replace(/[&<>"']/g, (m) => map[m])
escapeHtml(text) ==
    [i \in 1..Len(text) |->
        IF text[i] \in DOMAIN escapeMap THEN escapeMap[text[i]] ELSE text[i]]

\* s.replace(/\n/g, by)
replaceNewlines(text, by) ==
    [i \in 1..Len(text) |-> IF text[i] = "\n" THEN by ELSE text[i]]

----------------------------------------------------------------------------
(* A generated document is a sequence of chunks, in output order; the       *)
(* document's text is the concatenation of the chunks' texts.  A chunk      *)
(* remembers the place of the template that wrote it: site is "template"    *)
(* for the template's own text, "clock" for a date, "ldjson" for the        *)
(* serialized structured data, and the name of the field otherwise.  A plan *)
(* entry is a chunk before it is rendered: how says what the code does      *)
(* with val there.                                                          *)

Lit(s) == <<[site |-> "template", how |-> "lit", val |-> JStr(<<s>>)]>>
Clock(s) == <<[site |-> "clock", how |-> "lit", val |-> JStr(<<s>>)]>>
\* ${escapeHtml(x)}
Esc(site, x) == <<[site |-> site, how |-> "escape", val |-> x]>>
\* ${escapeHtml(x).replace(/\n/g, '</p>\n    <p>')}
EscPara(site, x) == <<[site |-> site, how |-> "escapePara", val |-> x]>>
\* ${escapeHtml(x).replace(/\n/g, '</p>\n      <p>')}
EscParaSub(site, x) == <<[site |-> site, how |-> "escapeParaSub", val |-> x]>>
\* ${escapeHtml(x.join(', '))}
EscJoin(site, x) == <<[site |-> site, how |-> "escapeJoin", val |-> x]>>
\* ${JSON.stringify(x, null, 2)}
Json(site, x) == <<[site |-> site, how |-> "stringify", val |-> x]>>
\* ${x}
Raw(site, x) == <<[site |-> site, how |-> "raw", val |-> x]>>
\* ${x.map(k => `"${k}"`).join(', ')}
RawQuotedJoin(site, x) == <<[site |-> site, how |-> "quotedJoin", val |-> x]>>

\* The entry throws a TypeError: escapeHtml calls text.replace, which only a
\* string has; join and map are called on the value, which only an array has.
EntryThrows(e) ==
    \/ e.how \in {"escape", "escapePara", "escapeParaSub"} /\ e.val.t # "str"
    \/ e.how \in {"escapeJoin", "quotedJoin", "forEach"} /\ e.val.t # "arr"

RenderEntry(e) ==
    CASE e.how = "lit" -> e.val.v
      [] e.how = "escape" -> escapeHtml(e.val.v)
      [] e.how = "escapePara" -> replaceNewlines(escapeHtml(e.val.v), "</p>\n    <p>")
      [] e.how = "escapeParaSub" ->
            replaceNewlines(escapeHtml(e.val.v), "</p>\n      <p>")
      [] e.how = "escapeJoin" -> escapeHtml(joinItems(e.val.v, <<",", " ">>))
      [] e.how = "stringify" -> stringify(e.val, 0)
      [] e.how = "quotedJoin" -> joinItems(mapQuoted(e.val.v), <<",", " ">>)
      [] e.how = "forEach" -> <<>>
      [] OTHER -> ToStr(e.val)

Render(plan) ==
    [i \in 1..Len(plan) |-> [site |-> plan[i].site, text |-> RenderEntry(plan[i])]]

PlanThrows(plan) == \E i \in 1..Len(plan) : EntryThrows(plan[i])

\* The concatenation of f[1], ..., f[n]
RECURSIVE FlatTo(_, _)
FlatTo(f, n) == IF n = 0 THEN <<>> ELSE FlatTo(f, n - 1) \o f[n]
Flat(f) == FlatTo(f, Len(f))

\* new Date() as the exporter prints it
DateStamp == "2026/11/6"
TimeStamp == "12:00:00"
IsoDate == "2026-11-06"

LitSeq(items) == <<[site |-> "template", how |-> "lit", val |-> JStr(items)]>>
\* x.forEach(...): renders nothing itself, throws unless x is an array
ForEach(site, x) == <<[site |-> site, how |-> "forEach", val |-> x]>>
Elems(x) == IF x.t = "arr" THEN x.v ELSE <<>>

----------------------------------------------------------------------------
(* generateMarkdown, lines 69-122 *)

\* if (options.includeSEO && article.seoMetadata), without the test of
\* includeSEO
includesSEO_ignoresOption(article, options) == Truthy(article.seoMetadata)

\* if (options.includeSEO && article.seoMetadata)
includesSEO(article, options) == Truthy(options.includeSEO) /\ Truthy(article.seoMetadata)


subPlanMd(sub) ==
    LitSeq(<<"#", "#", "#", " ">>) \o Raw("sub.title", sub.title) \o LitSeq(<<"\n", "\n">>)
        \o Raw("sub.content", sub.content) \o LitSeq(<<"\n", "\n">>)

sectionPlanMd(section) ==
    LitSeq(<<"#", "#", " ">>) \o Raw("section.heading", section.heading)
        \o LitSeq(<<"\n", "\n">>)
        \o Raw("section.content", section.content) \o LitSeq(<<"\n", "\n">>)
        \o (IF Truthy(section.subheadings)
            THEN ForEach("section.subheadings", section.subheadings)
                    \o Flat([j \in 1..Len(Elems(section.subheadings)) |->
                                subPlanMd(section.subheadings.v[j])])
            ELSE <<>>)

\* Every line break of the template is an item of its own.
markdownPlan(article, options) ==
    LET seo == article.seoMetadata
    IN  (IF includesSEO(article, options)
         THEN LitSeq(<<"---", "\n">>)
                \o Lit("title: \"") \o Raw("seo.title", seo.title) \o LitSeq(<<"\"", "\n">>)
                \o Lit("description: \"") \o Raw("seo.description", seo.description)
                \o LitSeq(<<"\"", "\n">>)
                \o Lit("keywords: [") \o RawQuotedJoin("seo.keywords", seo.keywords)
                \o LitSeq(<<"]", "\n">>)
                \o Lit("robots: \"") \o Raw("seo.metaRobots", seo.metaRobots) \o LitSeq(<<"\"", "\n">>)
                \o (IF Truthy(seo.canonicalUrl)
                    THEN Lit("canonical: \"") \o Raw("seo.canonicalUrl", seo.canonicalUrl)
                            \o LitSeq(<<"\"", "\n">>)
                    ELSE <<>>)
                \o Lit("date: \"") \o Clock(IsoDate) \o LitSeq(<<"\"", "\n">>)
                \o LitSeq(<<"author: \"CloudFlow Dynamics\"", "\n">>)
                \o LitSeq(<<"og:", "\n">>)
                \o Lit("  title: \"") \o Raw("seo.ogTitle", seo.ogTitle) \o LitSeq(<<"\"", "\n">>)
                \o Lit("  description: \"") \o Raw("seo.ogDescription", seo.ogDescription)
                \o LitSeq(<<"\"", "\n">>)
                \o LitSeq(<<"  type: \"article\"", "\n">>)
                \o LitSeq(<<"twitter:", "\n">>)
                \o Lit("  title: \"") \o Raw("seo.twitterTitle", seo.twitterTitle)
                \o LitSeq(<<"\"", "\n">>)
                \o Lit("  description: \"")
                \o Raw("seo.twitterDescription", seo.twitterDescription) \o LitSeq(<<"\"", "\n">>)
                \o LitSeq(<<"  card: \"summary_large_image\"", "\n">>)
                \o LitSeq(<<"---", "\n", "\n">>)
         ELSE <<>>)
        \o LitSeq(<<"#", " ">>) \o Raw("title", article.title) \o LitSeq(<<"\n", "\n">>)
        \o ForEach("sections", article.sections)
        \o Flat([i \in 1..Len(Elems(article.sections)) |->
                    sectionPlanMd(article.sections.v[i])])
        \o LitSeq(<<"---", "\n", "\n">>)
        \o LitSeq(<<"*[LLMO](https://github.com/ukenn2112/llmo-content) attribution*", "\n">>)
        \o Lit("*date: ") \o Clock(DateStamp) \o LitSeq(<<"*", "\n">>)

----------------------------------------------------------------------------
(* generateHTML, lines 124-308 *)

\* The fixed inline stylesheet of lines 168-263
StyleBlock == "\n  <style> ... </style>\n"

subPlanHtml(sub) ==
    Lit("    <div class=\"subsection\">\n")
        \o Lit("      <h3>") \o Esc("sub.title", sub.title) \o Lit("</h3>\n")
        \o Lit("      <p>") \o EscParaSub("sub.content", sub.content) \o Lit("</p>\n")
        \o Lit("    </div>\n")

sectionPlanHtml(section) ==
    Lit("  <div class=\"section\">\n")
        \o Lit("    <h2>") \o Esc("section.heading", section.heading) \o Lit("</h2>\n")
        \o Lit("    <p>") \o EscPara("section.content", section.content) \o Lit("</p>\n")
        \o (IF Truthy(section.subheadings)
            THEN ForEach("section.subheadings", section.subheadings)
                    \o Flat([j \in 1..Len(Elems(section.subheadings)) |->
                                subPlanHtml(section.subheadings.v[j])])
            ELSE <<>>)
        \o Lit("  </div>\n\n")

\* lines 133-161: the head's metadata when it is included
htmlSeoHead(seo) ==
    Lit("  <title>") \o Esc("seo.title", seo.title) \o Lit("</title>\n")
        \o Lit("  <meta name=\"description\" content=\"")
        \o Esc("seo.description", seo.description) \o Lit("\">\n")
        \o Lit("  <meta name=\"keywords\" content=\"")
        \o EscJoin("seo.keywords", seo.keywords) \o Lit("\">\n")
        \o Lit("  <meta name=\"robots\" content=\"")
        \o Esc("seo.metaRobots", seo.metaRobots) \o Lit("\">\n")
        \o (IF Truthy(seo.canonicalUrl)
            THEN Lit("  <link rel=\"canonical\" href=\"")
                    \o Esc("seo.canonicalUrl", seo.canonicalUrl) \o Lit("\">\n")
            ELSE <<>>)
        \o Lit("  <meta property=\"og:title\" content=\"")
        \o Esc("seo.ogTitle", seo.ogTitle) \o Lit("\">\n")
        \o Lit("  <meta property=\"og:description\" content=\"")
        \o Esc("seo.ogDescription", seo.ogDescription) \o Lit("\">\n")
        \o Lit("  <meta property=\"og:type\" content=\"article\">\n")
        \o (IF Truthy(seo.canonicalUrl)
            THEN Lit("  <meta property=\"og:url\" content=\"")
                    \o Esc("seo.canonicalUrl", seo.canonicalUrl) \o Lit("\">\n")
            ELSE <<>>)
        \o Lit("  <meta name=\"twitter:card\" content=\"summary_large_image\">\n")
        \o Lit("  <meta name=\"twitter:title\" content=\"")
        \o Esc("seo.twitterTitle", seo.twitterTitle) \o Lit("\">\n")
        \o Lit("  <meta name=\"twitter:description\" content=\"")
        \o Esc("seo.twitterDescription", seo.twitterDescription) \o Lit("\">\n")
        \o (IF Truthy(seo.structuredData)
            THEN Lit("  <script type=\"application/ld+json\">\n")
                    \o Lit("  ") \o Json("ldjson", seo.structuredData) \o Lit("\n")
                    \o Lit("  </script>\n")
            ELSE <<>>)

htmlPlan(article, options) ==
    LET includeStyles == ~(options.includeStyles.t = "bool"
                            /\ options.includeStyles.v = <<"false">>)
        withSeo == includesSEO(article, options)
    IN  Lit("<!DOCTYPE html>\n<html lang=\"ja\">\n<head>\n")
        \o Lit("  <meta charset=\"UTF-8\">\n")
        \o Lit("  <meta name=\"viewport\" content=\"width=device-width, initial-scale=1.0\">\n")
        \o (IF withSeo
            THEN htmlSeoHead(article.seoMetadata)
            ELSE Lit("  <title>") \o Esc("title", article.title) \o Lit("</title>\n"))
        \o (IF includeStyles THEN Lit(StyleBlock) ELSE <<>>)
        \o Lit("</head>\n<body>\n")
        \o (IF withSeo
            THEN Lit("  <div class=\"meta-info\">\n")
                    \o Lit("    <h4>article info</h4>\n")
                    \o Lit("    <p><strong>date:</strong> ") \o Clock(DateStamp) \o Lit("</p>\n")
                    \o Lit("    <p><strong>system:</strong> LLMO (CloudFlow Dynamics)</p>\n")
                    \o Lit("    <p><strong>optimization:</strong> SEO + LLMO/GEO</p>\n")
                    \o Lit("  </div>\n")
            ELSE <<>>)
        \o Lit("  <h1>") \o Esc("title", article.title) \o Lit("</h1>\n\n")
        \o ForEach("sections", article.sections)
        \o Flat([i \in 1..Len(Elems(article.sections)) |->
                    sectionPlanHtml(article.sections.v[i])])
        \o Lit("  <div class=\"footer\">\n")
        \o Lit("    <p><strong>generated by AI</strong></p>\n")
        \o Lit("    <p><em>LLMO</em> - CloudFlow Dynamics</p>\n")
        \o Lit("    <p>date: ") \o Clock(DateStamp) \o Lit(" ") \o Clock(TimeStamp)
        \o Lit("</p>\n")
        \o Lit("  </div>\n")
        \o Lit("</body>\n</html>")

\* The returned document, where the function does not throw
generateMarkdown(article, options) == Render(markdownPlan(article, options))
generateHTML(article, options) == Render(htmlPlan(article, options))

----------------------------------------------------------------------------
(* The export endpoint, POST, lines 21-67 *)

\* encodeURIComponent: the unreserved characters stay, the others that a
\* file name of the model holds are percent-encoded
encodeURIComponent(text) ==
    [i \in 1..Len(text) |->
        CASE text[i] = " " -> "%20"
          [] text[i] = "\"" -> "%22"
          [] text[i] = "/" -> "%2F"
          [] text[i] = "%" -> "%25"
          [] OTHER -> text[i]]

ErrorResponse(code, message) ==
    [status |-> code, contentType |-> "application/json", disposition |-> <<>>,
     body |-> <<>>, error |-> message]

\* Document whose Content-Disposition carries the file name as it is
Document_rawFilename(plan, mimeType, filename) ==
    IF PlanThrows(plan)
    THEN ErrorResponse(500, "export failed")
    ELSE [status |-> 200,
          contentType |-> mimeType,
          disposition |-> <<"attachment; filename=\"">> \o filename \o <<"\"">>,
          body |-> Render(plan),
          error |-> ""]

\* new NextResponse(exportedContent, {headers}): the status defaults to 200
Document(plan, mimeType, filename) ==
    IF PlanThrows(plan)
    THEN ErrorResponse(500, "export failed")
    ELSE [status |-> 200,
          contentType |-> mimeType,
          disposition |-> <<"attachment; filename=\"">> \o encodeURIComponent(filename)
                              \o <<"\"">>,
          body |-> Render(plan),
          error |-> ""]

\* POSTexport whose switch has no default branch of its own: an unknown
\* format is exported as HTML
POSTexport_defaultsToHtml(req) ==
    LET format == req.format
        article == req.article
        options == req.options
    IN  IF ~Truthy(format) \/ ~Truthy(article)
        THEN ErrorResponse(400, "format and article are required")
        ELSE IF format = JStr(<<"markdown">>)
             THEN Document(markdownPlan(article, options), "text/markdown; charset=utf-8",
                           IF Truthy(options.filename) THEN options.filename.v
                           ELSE <<"article.md">>)
        ELSE Document(htmlPlan(article, options), "text/html; charset=utf-8",
                      IF Truthy(options.filename) THEN options.filename.v
                      ELSE <<"article.html">>)

POSTexport(req) ==
    LET format == req.format
        article == req.article
        options == req.options
    IN  IF ~Truthy(format) \/ ~Truthy(article)
        THEN ErrorResponse(400, "format and article are required")
        ELSE IF format = JStr(<<"markdown">>)
             THEN Document(markdownPlan(article, options), "text/markdown; charset=utf-8",
                           IF Truthy(options.filename) THEN options.filename.v
                           ELSE <<"article.md">>)
        ELSE IF format = JStr(<<"html">>)
             THEN Document(htmlPlan(article, options), "text/html; charset=utf-8",
                           IF Truthy(options.filename) THEN options.filename.v
                           ELSE <<"article.html">>)
        ELSE ErrorResponse(400, "unsupported format")

----------------------------------------------------------------------------
(* The export requests of the model *)

\* The characters of a text field: one plain character, a line break, and
\* the five characters escapeHtml replaces
TextChars == {"a", "\n", "&", "<", ">", "\"", "'"}

RECURSIVE TextsUpTo(_)
TextsUpTo(n) ==
    IF n = 0 THEN {<<>>}
    ELSE LET shorter == TextsUpTo(n - 1)
         IN  shorter \cup {<<c>> \o t : c \in TextChars, t \in shorter}

ScriptOpen == <<"<", "s", "c", "r", "i", "p", "t", ">">>
ScriptClose == <<"<", "/", "s", "c", "r", "i", "p", "t", ">">>
Texts == TextsUpTo(MaxTextLen) \cup {ScriptOpen, ScriptClose}

\* What a field of the request body may hold: a string, or nothing
FieldValues == {JStr(t) : t \in Texts} \cup {Undefined}

Plain == JStr(<<"a">>)
Key(name) == <<name>>

BaseStructuredData ==
    JObj(<< <<Key("type"), JStr(<<"Article">>)>>,
            <<Key("name"), Plain>>,
            <<Key("keywords"), JArr(<<Plain>>)>> >>)

SeoStringFields ==
    {"title", "description", "metaRobots", "canonicalUrl", "ogTitle", "ogDescription",
     "twitterTitle", "twitterDescription"}

BaseSeo ==
    [t |-> "obj", title |-> Plain, description |-> Plain, keywords |-> JArr(<<Plain>>),
     metaRobots |-> Plain, canonicalUrl |-> Plain, ogTitle |-> Plain,
     ogDescription |-> Plain, twitterTitle |-> Plain, twitterDescription |-> Plain,
     structuredData |-> BaseStructuredData]

NoSeo ==
    [t |-> "undefined", title |-> Undefined, description |-> Undefined,
     keywords |-> Undefined, metaRobots |-> Undefined, canonicalUrl |-> Undefined,
     ogTitle |-> Undefined, ogDescription |-> Undefined, twitterTitle |-> Undefined,
     twitterDescription |-> Undefined, structuredData |-> Undefined]

BaseSub == [title |-> Plain, content |-> Plain]
BaseSection ==
    [heading |-> Plain, content |-> Plain,
     subheadings |-> JArr([j \in 1..MaxSubheadings |-> BaseSub])]
BaseArticle ==
    [t |-> "obj", title |-> Plain,
     sections |-> JArr([i \in 1..MaxSections |-> BaseSection]),
     seoMetadata |-> BaseSeo]
NoArticle ==
    [t |-> "undefined", title |-> Undefined, sections |-> Undefined, seoMetadata |-> NoSeo]

\* A slot is one place of the article: <<field, section, subheading>>
Slots ==
    {<<"title", 0, 0>>, <<"keyword", 0, 0>>, <<"structuredData.name", 0, 0>>}
        \cup {<<f, 0, 0>> : f \in SeoStringFields}
        \cup {<<f, i, 0>> : f \in {"heading", "content"}, i \in 1..MaxSections}
        \cup {<<f, i, j>> : f \in {"subTitle", "subContent"}, i \in 1..MaxSections,
                            j \in 1..MaxSubheadings}

\* BaseArticle with x in the slot
Fill(slot, x) ==
    LET f == slot[1]
        i == slot[2]
        j == slot[3]
    IN  CASE f = "title" -> [BaseArticle EXCEPT !.title = x]
          [] f = "heading" -> [BaseArticle EXCEPT !.sections.v[i].heading = x]
          [] f = "content" -> [BaseArticle EXCEPT !.sections.v[i].content = x]
          [] f = "subTitle" ->
                [BaseArticle EXCEPT !.sections.v[i].subheadings.v[j].title = x]
          [] f = "subContent" ->
                [BaseArticle EXCEPT !.sections.v[i].subheadings.v[j].content = x]
          [] f = "keyword" -> [BaseArticle EXCEPT !.seoMetadata.keywords = JArr(<<Plain, x>>)]
          [] f = "structuredData.name" ->
                IF x.t = "undefined"
                THEN [BaseArticle EXCEPT !.seoMetadata.structuredData = Undefined]
                ELSE [BaseArticle EXCEPT !.seoMetadata.structuredData.v[2][2] = x]
          [] OTHER -> [BaseArticle EXCEPT !.seoMetadata[f] = x]

\* The articles of the model: one slot filled, or a part left out
Articles ==
    {Fill(slot, x) : slot \in Slots, x \in FieldValues}
        \cup {[BaseArticle EXCEPT !.seoMetadata = NoSeo],
              [BaseArticle EXCEPT !.seoMetadata.keywords = Plain],
              [BaseArticle EXCEPT !.sections.v[1].subheadings = Undefined],
              NoArticle}

NoOptions == [includeSEO |-> Undefined, includeStyles |-> Undefined, filename |-> Undefined]

\* The format and options of the model's requests
Selectors ==
    {[format |-> JStr(<<"html">>), options |-> [NoOptions EXCEPT !.includeSEO = JTrue]],
     [format |-> JStr(<<"html">>), options |-> NoOptions],
     [format |-> JStr(<<"html">>),
      options |-> [NoOptions EXCEPT !.includeSEO = JTrue, !.includeStyles = JFalse]],
     [format |-> JStr(<<"markdown">>), options |-> [NoOptions EXCEPT !.includeSEO = JTrue]],
     [format |-> JStr(<<"markdown">>),
      options |-> [NoOptions EXCEPT !.filename = JStr(<<"m", "y", " ", "a", ".", "m", "d">>)]],
     [format |-> JStr(<<"html">>),
      options |-> [NoOptions EXCEPT !.filename = JStr(<<"a", "/", "\"", "%">>)]],
     [format |-> JStr(<<"markdown">>), options |-> [NoOptions EXCEPT !.filename = JStr(<<>>)]],
     [format |-> JStr(<<"pdf">>), options |-> NoOptions],
     [format |-> JStr(<<"HTML">>), options |-> NoOptions],
     [format |-> Undefined, options |-> NoOptions]}

RecoveryIdle ==
    /\ response = <<>>
    /\ recovered = <<>>
    /\ rpc = "idle"

InitExport ==
    /\ \E sel \in Selectors, a \in Articles :
          exportReq = [format |-> sel.format, article |-> a, options |-> sel.options]
    /\ exportRes = NoExportRes
    /\ epc = "start"
    /\ RecoveryIdle
    /\ PageIdle
    /\ PromptsIdle
    /\ ApiIdle
    /\ SvcIdle

ExportPOST ==
    /\ epc = "start"
    /\ exportRes' = POSTexport(exportReq)
    /\ epc' = "done"
    /\ UNCHANGED exportReq
    /\ UNCHANGED recVars
    /\ UNCHANGED pageVars
    /\ UNCHANGED promptVars
    /\ UNCHANGED apiVars
    /\ UNCHANGED svcVars

NextExport == ExportPOST

SpecExport == InitExport /\ [][NextExport]_vars

----------------------------------------------------------------------------
(* HTML export: what the claims speak of *)

HtmlSpecials == {"&", "<", ">", "\"", "'"}

\* The entity that stands for a character in HTML text
Entity(c) ==
    CASE c = "&" -> "&amp;"
      [] c = "<" -> "&lt;"
      [] c = ">" -> "&gt;"
      [] c = "\"" -> "&quot;"
      [] c = "'" -> "&#039;"
      [] OTHER -> c

\* The chunks of a document that hold what the caller supplied
CallerChunks(doc) ==
    {k \in 1..Len(doc) : doc[k].site \notin {"template", "clock", "sections",
                                             "section.subheadings"}}

\* The strings the caller supplied for a site of the HTML template
Supplied(article, site) ==
    LET seo == article.seoMetadata
        secs == article.sections.v
        subsOf(i) == Elems(secs[i].subheadings)
    IN  CASE site = "title" -> {article.title.v}
          [] site = "section.heading" -> {secs[i].heading.v : i \in 1..Len(secs)}
          [] site = "section.content" -> {secs[i].content.v : i \in 1..Len(secs)}
          [] site = "sub.title" ->
                UNION {{subsOf(i)[j].title.v : j \in 1..Len(subsOf(i))} : i \in 1..Len(secs)}
          [] site = "sub.content" ->
                UNION {{subsOf(i)[j].content.v : j \in 1..Len(subsOf(i))} : i \in 1..Len(secs)}
          [] site = "seo.title" -> {seo.title.v}
          [] site = "seo.description" -> {seo.description.v}
          [] site = "seo.keywords" -> {joinItems(seo.keywords.v, <<",", " ">>)}
          [] site = "seo.metaRobots" -> {seo.metaRobots.v}
          [] site = "seo.canonicalUrl" -> {seo.canonicalUrl.v}
          [] site = "seo.ogTitle" -> {seo.ogTitle.v}
          [] site = "seo.ogDescription" -> {seo.ogDescription.v}
          [] site = "seo.twitterTitle" -> {seo.twitterTitle.v}
          [] site = "seo.twitterDescription" -> {seo.twitterDescription.v}
          [] OTHER -> {}

\* A supplied string as it must stand in the document: each of the five
\* characters as its entity, every other character as it is (in a section's
\* or subheading's body a line break ends the paragraph)
Encoded(v, site) ==
    [i \in 1..Len(v) |->
        IF v[i] = "\n" /\ site = "section.content" THEN "</p>\n    <p>"
        ELSE IF v[i] = "\n" /\ site = "sub.content" THEN "</p>\n      <p>"
        ELSE Entity(v[i])]

HtmlExported ==
    /\ epc = "done"
    /\ exportReq.format = JStr(<<"html">>)
    /\ exportRes.status = 200

\* C6: in an HTML export no text the caller supplied (title, headings,
\* bodies, every string of the SEO metadata, those of structuredData
\* included) stands in the document as a raw "<" or ">", which could open
\* or close an element.
C6_NoRawMarkup ==
    HtmlExported =>
        \A k \in CallerChunks(exportRes.body) :
            \A i \in 1..Len(exportRes.body[k].text) :
                exportRes.body[k].text[i] \notin {"<", ">"}

\* C7: in an HTML export every value the caller supplied, outside the
\* serialized ld+json payload, stands in the document escaped: every
\* occurrence of & < > " ' replaced by its entity, every other character
\* unchanged.
C7_EveryValueEscaped ==
    HtmlExported =>
        /\ \E k \in CallerChunks(exportRes.body) : exportRes.body[k].site = "title"
        /\ \A k \in CallerChunks(exportRes.body) :
              LET c == exportRes.body[k]
              IN  c.site # "ldjson" =>
                    /\ \E v \in Supplied(exportReq.article, c.site) :
                          c.text = Encoded(v, c.site)
                    /\ \A i \in 1..Len(c.text) : c.text[i] \notin HtmlSpecials

\* C7 witness: an attribute value that holds two double quotes was written
\* as two entities.
C7_Witness ==
    /\ HtmlExported
    /\ exportReq.article.seoMetadata.description.v = <<"\"", "\"">>
    /\ \E k \in 1..Len(exportRes.body) :
          /\ exportRes.body[k].site = "seo.description"
          /\ exportRes.body[k].text = <<"&quot;", "&quot;">>

----------------------------------------------------------------------------
(* Article endpoint, src/unnamed/part_000 lines 51-238 *)

kTitle == <<"t", "i", "t", "l", "e">>
kSections == <<"s", "e", "c", "t", "i", "o", "n", "s">>
kHeading == <<"h", "e", "a", "d", "i", "n", "g">>
kContent == <<"c", "o", "n", "t", "e", "n", "t">>
kSubheadings == <<"s", "u", "b", "h", "e", "a", "d", "i", "n", "g", "s">>
kSeoMetadata == <<"s", "e", "o", "M", "e", "t", "a", "d", "a", "t", "a">>

\* x has an own property key (only the objects JSON.parse builds have any
\* of the keys the handler reads)
HasOwn(x, key) == x.t = "obj" /\ \E i \in 1..Len(x.v) : x.v[i][1] = key

\* x[key]: undefined when absent; of a repeated key JSON.parse keeps the last
Get(x, key) ==
    IF HasOwn(x, key)
    THEN x.v[SetMax({i \in 1..Len(x.v) : x.v[i][1] = key})][2]
    ELSE Undefined

\* Reading a property of null or undefined throws a TypeError
Nullish(x) == x.t \in {"undefined", "null"}

\* x[key] = val on an object
Assign(x, key, val) ==
    IF HasOwn(x, key)
    THEN JObj([i \in 1..Len(x.v) |-> IF x.v[i][1] = key THEN <<key, val>> ELSE x.v[i]])
    ELSE JObj(Append(x.v, <<key, val>>))

\* What JSON.stringify keeps of an object: a member whose value is undefined
\* is left out
Serialized(x) == JObj(SelectSeq(x.v, LAMBDA mem : mem[2].t # "undefined"))

\* Lines 222-225 without the Array.isArray test
validStructure_noArrayCheck(parsedResponse) ==
    /\ ~Nullish(parsedResponse)
    /\ Truthy(Get(parsedResponse, kTitle))
    /\ Truthy(Get(parsedResponse, kSections))

\* Lines 222-225: the parsed reply is kept when it has a truthy title and a
\* truthy sections value that is an array (reading .title of null throws
\* into the same catch)
validStructure(parsedResponse) ==
    /\ ~Nullish(parsedResponse)
    /\ Truthy(Get(parsedResponse, kTitle))
    /\ Truthy(Get(parsedResponse, kSections))
    /\ Get(parsedResponse, kSections).t = "arr"

\* The messages of the errors the services throw.  A message is a sequence
\* of items; the source's Japanese texts are named in English.
\* Line 213: no content in the completion
EmptyReplyError == <<"no reply from the completion endpoint">>
\* Line 224
InvalidStructureError == <<"invalid response structure">>
\* Line 232: the prefix put before the message of the error caught
ParseFailedPrefix == <<"response parse failed: ">>
\* Line 236
ApiConnectionError == <<"API key missing or connection to the API failed">>
\* The message of the error a rejected completion call throws
UpstreamRejection == <<"upstream request failed">>

\* The message of the SyntaxError JSON.parse throws for text: it names the
\* offending input
parserMessage(text) == <<"SyntaxError: not valid JSON: ">> \o text
\* The message of the TypeError thrown by reading a property of null
nullReadMessage == <<"TypeError: cannot read properties of null">>

Throw(msg) == [threw |-> TRUE, value |-> Undefined, message |-> msg]
\* Line 236: the throw of the outer catch
Thrown == Throw(ApiConnectionError)
Returned(x) == [threw |-> FALSE, value |-> x, message |-> <<>>]

\* Lines 219-233: the inner try; whatever is thrown inside it, the syntax
\* error of JSON.parse and the error of the structure check alike, is caught
\* and thrown again behind ParseFailedPrefix
parseArticle(cleanJsonString) ==
    LET try(parsedResponse) ==
            IF ~parsedResponse.ok
            THEN Throw(ParseFailedPrefix \o parserMessage(cleanJsonString))
            ELSE IF Nullish(parsedResponse.val)
            THEN Throw(ParseFailedPrefix \o nullReadMessage)
            ELSE IF ~validStructure(parsedResponse.val)
            THEN Throw(ParseFailedPrefix \o InvalidStructureError)
            ELSE Returned(parsedResponse.val)
    IN  try(JSONparse(cleanJsonString))

\* Lines 211-237, from the settled completion call on: every error thrown
\* inside the outer try is caught at line 234 and replaced by the throw of
\* line 236; the parsed object is returned as it is
generateOptimizedArticleWithAI(r) ==
    LET catch(tried) == IF tried.threw THEN Thrown ELSE tried
    IN  catch(IF r.kind = "rejects" THEN Throw(UpstreamRejection)
              ELSE IF r.kind # "content" \/ r.text = <<>> THEN Throw(EmptyReplyError)
              ELSE parseArticle(extractJsonFromResponse(r.text)))


\* Lines 68-70: section.subheadings?.map(...) throws for a value that is
\* neither null, undefined nor an array, and for a null element
subheadingsThrow(subheadings) ==
    /\ ~Nullish(subheadings)
    /\ \/ subheadings.t # "arr"
       \/ \E i \in 1..Len(subheadings.v) : Nullish(subheadings.v[i])

sectionThrows(section) ==
    Nullish(section) \/ subheadingsThrow(Get(section, kSubheadings))

\* article.sections.map throws for a sections value that is no array
flattenThrows(art) ==
    LET sections == Get(art, kSections)
    IN  \/ sections.t # "arr"
        \/ \E i \in 1..Len(sections.v) : sectionThrows(sections.v[i])

subText(sub) == ToStr(Get(sub, kTitle)) \o <<"\n">> \o ToStr(Get(sub, kContent))

sectionText(section) ==
    LET subheadings == Get(section, kSubheadings)
        joined == IF Nullish(subheadings) THEN <<>>
                  ELSE joinItems([i \in 1..Len(subheadings.v) |->
                                     JStr(subText(subheadings.v[i]))], <<"\n">>)
    IN  ToStr(Get(section, kHeading)) \o <<"\n">>
           \o ToStr(Get(section, kContent)) \o <<"\n">> \o joined

\* Lines 68-70: the flattened text of the sections
articleContent(art) ==
    LET sections == Get(art, kSections).v
    IN  joinItems([i \in 1..Len(sections) |-> JStr(sectionText(sections[i]))], <<"\n">>)

\* The check of line 55 with the keyword left out
titleOrKeywordMissing_titleOnly(req) == ~Truthy(req.title)

\* Line 55 (and line 240 of the metadata endpoint): !title || !keyword
titleOrKeywordMissing(req) == ~Truthy(req.title) \/ ~Truthy(req.keyword)

\* Line 53: generateSEO defaults to true when the body has no such field
wantsSEO(req) == IF req.generateSEO.t = "undefined" THEN TRUE ELSE Truthy(req.generateSEO)

\* The message of the error request.json() throws for a body that is no JSON
BodyUnreadable == <<"SyntaxError: request body is not valid JSON">>

ArticleOk(art) == [status |-> 200, article |-> Serialized(art), error |-> ""]
ArticleError(code, message) == [status |-> code, article |-> Undefined, error |-> message]

\* The catch of POST answering with the message of the error it caught
POSTcatch_leaks(error) == ArticleError(500, error[1])

\* Lines 98-104: the catch of POST logs the error and answers with a fixed
\* message
POSTcatch(error) == ArticleError(500, "article generation failed")

----------------------------------------------------------------------------
(* The requests, upstream replies and metadata outcomes of the model *)

ApiRequests ==
    {NoApiReq}
      \cup [readable : {TRUE},
            title : {Undefined, JStr(<<>>), JStr(<<"T">>)},
            keyword : {Undefined, JStr(<<>>), JStr(<<"K">>)},
            generateSEO : {Undefined, JTrue, JFalse}]

RECURSIVE writeJson(_), writeAll(_, _)
\* A JSON text of the value x, as the hosted model may write it
writeJson(x) ==
    CASE x.t = "str" -> <<"\"">> \o x.v \o <<"\"">>
      [] x.t = "num" -> x.v
      [] x.t = "bool" -> IF x = JTrue THEN <<"t", "r", "u", "e">>
                         ELSE <<"f", "a", "l", "s", "e">>
      [] x.t = "null" -> <<"n", "u", "l", "l">>
      [] x.t = "arr" -> <<"[">> \o writeAll(x, 1) \o <<"]">>
      [] OTHER -> <<"{">> \o writeAll(x, 1) \o <<"}">>

writeAll(x, i) ==
    IF i > Len(x.v) THEN <<>>
    ELSE (IF x.t = "arr" THEN writeJson(x.v[i])
          ELSE <<"\"">> \o x.v[i][1] \o <<"\"", ":">> \o writeJson(x.v[i][2]))
            \o (IF i = Len(x.v) THEN <<>> ELSE <<",", " ">> \o writeAll(x, i + 1))

Sec(heading, content) ==
    JObj(<< <<kHeading, JStr(heading)>>, <<kContent, JStr(content)>> >>)

WithSubheadings(section, subheadings) ==
    JObj(section.v \o << <<kSubheadings, subheadings>> >>)

\* The elements a reply's sections array may hold
SectionChoices ==
    { Sec(<<"H">>, <<"C">>),
      Sec(<<>>, <<"C">>),
      Sec(<<"H">>, <<>>),
      JObj(<<>>),
      JNull,
      WithSubheadings(Sec(<<"H">>, <<"C">>),
          JArr(<< JObj(<< <<kTitle, JStr(<<"S">>)>>, <<kContent, JStr(<<"D">>)>> >>) >>)),
      WithSubheadings(Sec(<<"H">>, <<"C">>), JStr(<<"x">>)) }

SectionLists == UNION { [1..n -> SectionChoices] : n \in 0..MaxReplySections }

TitleMembers ==
    { <<>> } \cup { << <<kTitle, v>> >> : v \in {JStr(<<"T">>), JStr(<<>>), JNull} }

SectionsMembers ==
    { <<>> } \cup { << <<kSections, v>> >> :
                      v \in {JNull, JStr(<<"x">>), JObj(<<>>)}
                              \cup {JArr(l) : l \in SectionLists} }

ExtraMembers == { <<>>, << <<kSeoMetadata, JStr(<<"x">>)>> >> }

ReplyValues ==
    { JObj(t \o sec \o e) : t \in TitleMembers, sec \in SectionsMembers, e \in ExtraMembers }
      \cup {JNull, JArr(<<>>), JStr(<<"x">>)}

\* How the hosted model may present its JSON: bare, in a json-tagged fence,
\* in an untagged fence, inside prose, or cut off before the last character
Wrappers == {"bare", "jsonFence", "fence", "prose", "truncated"}

Wrap(w, text) ==
    CASE w = "bare" -> text
      [] w = "jsonFence" -> JsonFence \o <<"\n">> \o text \o <<"\n">> \o Fence
      [] w = "fence" -> Fence \o <<"\n">> \o text \o <<"\n">> \o Fence
      [] w = "prose" -> <<"O", "K", ":", " ">> \o text \o <<" ", "e", "n", "d">>
      [] OTHER -> SubSeq(text, 1, Len(text) - 1)

ReplyTexts == { Wrap(w, writeJson(x)) : w \in Wrappers, x \in ReplyValues }

\* The completion call rejects, resolves without content, or resolves with a text
CompletionOutcomes ==
    { [kind |-> "rejects", text |-> <<>>], [kind |-> "empty", text |-> <<>>] }
      \cup { [kind |-> "content", text |-> t] : t \in ReplyTexts }

SeoMetadataValue == JObj(<< <<kTitle, JStr(<<"M">>)>> >>)

\* The metadata call rejects, answers with a non-OK status, answers OK with a
\* body that cannot be read, or answers OK with a JSON body
SeoOutcomes ==
    { [kind |-> k, data |-> Undefined] : k \in {"rejects", "notOk", "unreadable"} }
      \cup { [kind |-> "ok", data |-> d] :
               d \in { JObj(<< <<kSeoMetadata, SeoMetadataValue>> >>), JObj(<<>>), JNull } }

----------------------------------------------------------------------------
(* The article endpoint as a state machine *)

InitArticle ==
    /\ apiReq \in ApiRequests
    /\ apc = "start"
    /\ reply = NoReply
    /\ generated = Undefined
    /\ seoReq = NoSeoReq
    /\ seoResult = NoSeoResult
    /\ calls = NoCalls
    /\ caught = <<>>
    /\ apiRes = NoApiRes
    /\ RecoveryIdle
    /\ PageIdle
    /\ PromptsIdle
    /\ ExportIdle
    /\ SvcIdle

\* Lines 52-63 and 107-209: the body is read and checked, and the
\* completion call is issued
ArticlePOST ==
    /\ apc = "start"
    /\ IF ~apiReq.readable
       THEN /\ caught' = BodyUnreadable
            /\ apiRes' = POSTcatch(BodyUnreadable)
            /\ apc' = "done"
            /\ UNCHANGED calls
       ELSE IF titleOrKeywordMissing(apiReq)
       THEN /\ apiRes' = ArticleError(400, "title and keyword are required")
            /\ apc' = "done"
            /\ UNCHANGED <<calls, caught>>
       ELSE /\ calls' = [calls EXCEPT !.completion = @ + 1]
            /\ apc' = "awaitCompletion"
            /\ UNCHANGED <<apiRes, caught>>
    /\ UNCHANGED <<apiReq, reply, generated, seoReq, seoResult>>
    /\ UNCHANGED recVars
    /\ UNCHANGED pageVars
    /\ UNCHANGED promptVars
    /\ UNCHANGED expVars
    /\ UNCHANGED svcVars

\* CompletionSettles answering at once: the metadata call is issued but not
\* awaited
CompletionSettles_notAwaited ==
    /\ apc = "awaitCompletion"
    /\ \E r \in CompletionOutcomes :
          \E result \in {generateOptimizedArticleWithAI(r)} :
              /\ reply' = r
              /\ IF result.threw
                 THEN /\ caught' = result.message
                      /\ apiRes' = POSTcatch(result.message)
                      /\ UNCHANGED <<generated, calls>>
                 ELSE /\ generated' = result.value
                      /\ apiRes' = ArticleOk(result.value)
                      /\ calls' = IF wantsSEO(apiReq) /\ ~flattenThrows(result.value)
                                  THEN [calls EXCEPT !.metadata = @ + 1]
                                  ELSE calls
                      /\ UNCHANGED caught
              /\ apc' = "done"
    /\ UNCHANGED <<apiReq, seoReq, seoResult>>
    /\ UNCHANGED recVars
    /\ UNCHANGED pageVars
    /\ UNCHANGED promptVars
    /\ UNCHANGED expVars
    /\ UNCHANGED svcVars

\* Lines 211-237 and 63-84: the completion call settles; the article is
\* recovered, and the metadata call is issued when it was asked for
CompletionSettles ==
    /\ apc = "awaitCompletion"
    /\ \E r \in CompletionOutcomes :
          \E result \in {generateOptimizedArticleWithAI(r)} :
              /\ reply' = r
              /\ IF result.threw
                 THEN /\ caught' = result.message
                      /\ apiRes' = POSTcatch(result.message)
                      /\ apc' = "done"
                      /\ UNCHANGED <<generated, seoReq, seoResult, calls>>
                 ELSE /\ generated' = result.value
                      /\ UNCHANGED caught
                      /\ IF ~wantsSEO(apiReq)
                         THEN /\ apiRes' = ArticleOk(result.value)
                              /\ apc' = "done"
                              /\ UNCHANGED <<seoReq, seoResult, calls>>
                         ELSE IF flattenThrows(result.value)
                         THEN /\ seoResult' = [kind |-> "flattenThrew", data |-> Undefined]
                              /\ apiRes' = ArticleOk(result.value)
                              /\ apc' = "done"
                              /\ UNCHANGED <<seoReq, calls>>
                         ELSE /\ seoReq' = [title |-> Get(result.value, kTitle),
                                            content |-> articleContent(result.value),
                                            keyword |-> apiReq.keyword]
                              /\ calls' = [calls EXCEPT !.metadata = @ + 1]
                              /\ apc' = "awaitSeo"
                              /\ UNCHANGED <<seoResult, apiRes>>
    /\ UNCHANGED apiReq
    /\ UNCHANGED recVars
    /\ UNCHANGED pageVars
    /\ UNCHANGED promptVars
    /\ UNCHANGED expVars
    /\ UNCHANGED svcVars

\* Lines 86-97: the metadata call settles and the article is returned
SeoSettles ==
    /\ apc = "awaitSeo"
    /\ \E o \in SeoOutcomes :
          LET attached == IF o.kind = "ok" /\ ~Nullish(o.data)
                          THEN Assign(generated, kSeoMetadata, Get(o.data, kSeoMetadata))
                          ELSE generated
          IN  /\ seoResult' = o
              /\ generated' = attached
              /\ apiRes' = ArticleOk(attached)
              /\ apc' = "done"
    /\ UNCHANGED <<apiReq, reply, seoReq, calls, caught>>
    /\ UNCHANGED recVars
    /\ UNCHANGED pageVars
    /\ UNCHANGED promptVars
    /\ UNCHANGED expVars
    /\ UNCHANGED svcVars

Next ==
    \/ ArticlePOST
    \/ CompletionSettles
    \/ SeoSettles

Spec == InitArticle /\ [][Next]_vars


----------------------------------------------------------------------------
(* The article endpoint: what is claimed of it *)

ArticleDone == apc = "done"

\* Article generation itself succeeded: the reply was accepted as an article
GenerationSucceeded ==
    /\ reply.kind = "content"
    /\ ~generateOptimizedArticleWithAI(reply).threw

\* The metadata call failed: the sections could not be flattened, the call
\* threw, or it was answered with a non-OK status
MetadataFailed == seoResult.kind \in {"flattenThrew", "rejects", "notOk"}

\* C8: whenever article generation succeeds and generateSEO is requested,
\* the endpoint answers 200 with the article whatever the outcome of the
\* metadata call, and when the metadata call fails the returned article
\* carries no seoMetadata.
C8_MetadataCallIsolated ==
    (ArticleDone /\ GenerationSucceeded /\ wantsSEO(apiReq)) =>
        /\ apiRes.status = 200
        /\ apiRes.article # Undefined
        /\ MetadataFailed => ~HasOwn(apiRes.article, kSeoMetadata)

NonEmptyString(x) == x.t = "str" /\ x.v # <<>>

WellFormedSection(section) ==
    /\ NonEmptyString(Get(section, kHeading))
    /\ NonEmptyString(Get(section, kContent))

\* C9: every article a successful article-generation call returns has a
\* non-empty sections list, and every section has a non-empty heading and a
\* non-empty body, whatever the upstream reply was.
C9_ReturnedArticleWellFormed ==
    generated # Undefined =>
        LET sections == Get(generated, kSections)
        IN  /\ sections.t = "arr"
            /\ sections.v # <<>>
            /\ \A i \in 1..Len(sections.v) : WellFormedSection(sections.v[i])

\* The JSON value Text Recovery and JSON.parse make of the reply
RecoveredReply == JSONparse(extractJsonFromResponse(reply.text))

\* The recovered JSON lacks a title, or its sections value is missing or is
\* not an array
MalformedReply ==
    /\ reply.kind = "content"
    /\ RecoveredReply.ok
    /\ \/ ~HasOwn(RecoveredReply.val, kTitle)
       \/ ~HasOwn(RecoveredReply.val, kSections)
       \/ Get(RecoveredReply.val, kSections).t # "arr"

\* C10: an upstream reply whose recovered JSON lacks a title, or whose
\* sections value is missing or not an array, ends in HTTP 500 and no
\* article is returned.
C10_MalformedReplyIs500 ==
    (ArticleDone /\ MalformedReply) =>
        /\ apiRes.status = 500
        /\ apiRes.article = Undefined

\* C10 witness: a reply with a title whose sections value is a string was
\* answered with 500.
C10_Witness ==
    /\ ArticleDone
    /\ MalformedReply
    /\ HasOwn(RecoveredReply.val, kTitle)
    /\ Get(RecoveredReply.val, kSections) = JStr(<<"x">>)
    /\ apiRes.status = 500

\* C11: when the article request has generateSEO false, no metadata call is
\* issued and the article in the response has no seoMetadata key, whatever
\* the upstream reply was.
C11_NoMetadataWhenNotRequested ==
    (ArticleDone /\ apiReq.generateSEO = JFalse /\ apiRes.status = 200) =>
        /\ calls.metadata = 0
        /\ ~HasOwn(apiRes.article, kSeoMetadata)

----------------------------------------------------------------------------
(* Title endpoint, src/unnamed/part_001 lines 46-175 *)

\* The title lists of an upstream reply hold at most MaxReplyTitles elements.
MaxReplyTitles == 2

kTitles == <<"t", "i", "t", "l", "e", "s">>
kDescription == <<"d", "e", "s", "c", "r", "i", "p", "t", "i", "o", "n">>
kId == <<"i", "d">>
kKeywords == <<"k", "e", "y", "w", "o", "r", "d", "s">>

RECURSIVE decimal(_)
\* String(n) of a natural number
decimal(n) ==
    LET digit == <<"0", "1", "2", "3", "4", "5", "6", "7", "8", "9">>[(n % 10) + 1]
    IN  IF n < 10 THEN <<digit>> ELSE Append(decimal(n \div 10), digit)

\* Lines 157-161: the entry made of the element at index (0-based)
generatedTitle(title, index) ==
    JObj(<< <<kId, JStr(<<"a", "i", "-", "t", "i", "t", "l", "e", "-">> \o decimal(index + 1))>>,
            <<kTitle, Get(title, kTitle)>>,
            <<kDescription, Get(title, kDescription)>> >>)

\* Lines 149-170: the inner try of generateOptimizedTitlesWithAI
parseTitles(cleanJsonString) ==
    LET map(titles) ==
            IF ~Truthy(titles) \/ titles.t # "arr"
            THEN Throw(ParseFailedPrefix \o InvalidStructureError)
            ELSE IF \E i \in 1..Len(titles.v) : Nullish(titles.v[i])
            THEN Throw(ParseFailedPrefix \o nullReadMessage)
            ELSE Returned(JArr([i \in 1..Len(titles.v) |->
                                   generatedTitle(titles.v[i], i - 1)]))
        try(parsedResponse) ==
            IF ~parsedResponse.ok
            THEN Throw(ParseFailedPrefix \o parserMessage(cleanJsonString))
            ELSE IF Nullish(parsedResponse.val)
            THEN Throw(ParseFailedPrefix \o nullReadMessage)
            ELSE map(Get(parsedResponse.val, kTitles))
    IN  try(JSONparse(cleanJsonString))

\* Lines 141-174, from the settled completion call on
generateOptimizedTitlesWithAI(r) ==
    LET catch(tried) == IF tried.threw THEN Thrown ELSE tried
    IN  catch(IF r.kind = "rejects" THEN Throw(UpstreamRejection)
              ELSE IF r.kind # "content" \/ r.text = <<>> THEN Throw(EmptyReplyError)
              ELSE parseTitles(extractJsonFromResponseTitles(r.text)))

\* What JSON.stringify keeps of an array of objects
SerializedAll(x) == JArr([i \in 1..Len(x.v) |-> Serialized(x.v[i])])

SvcOk(value) == [status |-> 200, body |-> value, error |-> ""]
SvcError(code, message) == [status |-> code, body |-> Undefined, error |-> message]

\* Lines 61-67: the catch of the title endpoint's POST
TitlesPOSTcatch(error) == SvcError(500, "title generation failed")

\* The catch of the metadata endpoint's POST answering with the status of a
\* gateway
MetadataPOSTcatch_badGateway(error) == SvcError(502, "SEO metadata generation failed")

\* Lines 251-257: the catch of the metadata endpoint's POST
MetadataPOSTcatch(error) == SvcError(500, "SEO metadata generation failed")

\* The title requests of the model
TitleRequests ==
    {NoSvcReq}
      \cup [readable : {TRUE}, title : {Undefined},
            keyword : {Undefined, JStr(<<>>), JStr(<<"K">>)}]

\* The elements a reply's titles array may hold
TitleChoices ==
    { JObj(<< <<kTitle, JStr(<<"T">>)>>, <<kDescription, JStr(<<"D">>)>> >>),
      JObj(<< <<kTitle, JStr(<<>>)>>, <<kDescription, JStr(<<"D">>)>> >>),
      JObj(<< <<kTitle, JStr(<<"T">>)>> >>),
      JNull,
      JStr(<<"x">>) }

TitleLists == UNION { [1..n -> TitleChoices] : n \in 0..MaxReplyTitles }

TitleReplyValues ==
    { JObj(<< <<kTitles, v>> >>) :
        v \in {JNull, JStr(<<"x">>), JObj(<<>>)} \cup {JArr(l) : l \in TitleLists} }
      \cup {JObj(<<>>), JNull, JArr(<<>>), JStr(<<"x">>)}

TitleCompletionOutcomes ==
    { [kind |-> "rejects", text |-> <<>>], [kind |-> "empty", text |-> <<>>] }
      \cup { [kind |-> "content", text |-> Wrap(w, writeJson(x))] :
               w \in Wrappers, x \in TitleReplyValues }

InitTitles ==
    /\ svc = "titles"
    /\ svcReq \in TitleRequests
    /\ svcpc = "start"
    /\ svcReply = NoReply
    /\ svcCalls = 0
    /\ svcCaught = <<>>
    /\ svcRes = NoSvcRes
    /\ RecoveryIdle
    /\ PageIdle
    /\ PromptsIdle
    /\ ExportIdle
    /\ ApiIdle

\* Lines 47-58 and 70-139: the body is read and checked, and the completion
\* call is issued
TitlesPOST ==
    /\ svc = "titles"
    /\ svcpc = "start"
    /\ IF ~svcReq.readable
       THEN /\ svcCaught' = BodyUnreadable
            /\ svcRes' = TitlesPOSTcatch(BodyUnreadable)
            /\ svcpc' = "done"
            /\ UNCHANGED svcCalls
       ELSE IF ~Truthy(svcReq.keyword)
       THEN /\ svcRes' = SvcError(400, "keyword is required")
            /\ svcpc' = "done"
            /\ UNCHANGED <<svcCalls, svcCaught>>
       ELSE /\ svcCalls' = svcCalls + 1
            /\ svcpc' = "awaitCompletion"
            /\ UNCHANGED <<svcRes, svcCaught>>
    /\ UNCHANGED <<svc, svcReq, svcReply>>
    /\ UNCHANGED recVars
    /\ UNCHANGED pageVars
    /\ UNCHANGED promptVars
    /\ UNCHANGED expVars
    /\ UNCHANGED apiVars

\* TitlesCompletionSettles with a second attempt: after a failed reply the
\* completion call is issued once more
TitlesCompletionSettles_retries ==
    /\ svc = "titles"
    /\ svcpc = "awaitCompletion"
    /\ \E r \in TitleCompletionOutcomes :
          \E result \in {generateOptimizedTitlesWithAI(r)} :
              /\ svcReply' = r
              /\ IF result.threw /\ svcCalls < 2
                 THEN /\ svcCalls' = svcCalls + 1
                      /\ UNCHANGED <<svcCaught, svcRes, svcpc>>
                 ELSE /\ IF result.threw
                         THEN /\ svcCaught' = result.message
                              /\ svcRes' = TitlesPOSTcatch(result.message)
                         ELSE /\ svcRes' = SvcOk(SerializedAll(result.value))
                              /\ UNCHANGED svcCaught
                      /\ svcpc' = "done"
                      /\ UNCHANGED svcCalls
    /\ UNCHANGED <<svc, svcReq>>
    /\ UNCHANGED recVars
    /\ UNCHANGED pageVars
    /\ UNCHANGED promptVars
    /\ UNCHANGED expVars
    /\ UNCHANGED apiVars

\* Lines 141-174 and 58-67: the completion call settles and the titles, or
\* the error, are answered
TitlesCompletionSettles ==
    /\ svc = "titles"
    /\ svcpc = "awaitCompletion"
    /\ \E r \in TitleCompletionOutcomes :
          \E result \in {generateOptimizedTitlesWithAI(r)} :
              /\ svcReply' = r
              /\ IF result.threw
                 THEN /\ svcCaught' = result.message
                      /\ svcRes' = TitlesPOSTcatch(result.message)
                 ELSE /\ svcRes' = SvcOk(SerializedAll(result.value))
                      /\ UNCHANGED svcCaught
              /\ svcpc' = "done"
    /\ UNCHANGED <<svc, svcReq, svcCalls>>
    /\ UNCHANGED recVars
    /\ UNCHANGED pageVars
    /\ UNCHANGED promptVars
    /\ UNCHANGED expVars
    /\ UNCHANGED apiVars

NextTitles ==
    \/ TitlesPOST
    \/ TitlesCompletionSettles

SpecTitles == InitTitles /\ [][NextTitles]_vars

\* C12: every successful title-generation call yields a non-empty titles
\* array in which each entry has a non-empty id, a non-empty title and a
\* non-empty description, whatever the upstream reply was.
C12_TitlesWellFormed ==
    (svc = "titles" /\ svcpc = "done" /\ svcRes.status = 200) =>
        /\ svcRes.body.t = "arr"
        /\ svcRes.body.v # <<>>
        /\ \A i \in 1..Len(svcRes.body.v) :
              /\ NonEmptyString(Get(svcRes.body.v[i], kId))
              /\ NonEmptyString(Get(svcRes.body.v[i], kTitle))
              /\ NonEmptyString(Get(svcRes.body.v[i], kDescription))

----------------------------------------------------------------------------
(* Metadata endpoint, src/unnamed/part_001 lines 236-393 *)

\* Line 380
InvalidSeoStructureError == <<"invalid SEO metadata structure">>
\* Line 388: the prefix put before the message of the error caught
SeoParseFailedPrefix == <<"SEO metadata parse failed: ">>

\* Lines 378-381: the parsed reply is kept when title, description and
\* keywords are all truthy
validSeoStructure(parsedResponse) ==
    /\ Truthy(Get(parsedResponse, kTitle))
    /\ Truthy(Get(parsedResponse, kDescription))
    /\ Truthy(Get(parsedResponse, kKeywords))

\* Lines 374-389: the inner try of generateSEOMetadataWithAI
parseSeoMetadata(cleanJsonString) ==
    LET try(parsedResponse) ==
            IF ~parsedResponse.ok
            THEN Throw(SeoParseFailedPrefix \o parserMessage(cleanJsonString))
            ELSE IF Nullish(parsedResponse.val)
            THEN Throw(SeoParseFailedPrefix \o nullReadMessage)
            ELSE IF ~validSeoStructure(parsedResponse.val)
            THEN Throw(SeoParseFailedPrefix \o InvalidSeoStructureError)
            ELSE Returned(parsedResponse.val)
    IN  try(JSONparse(cleanJsonString))

\* Lines 366-393, from the settled completion call on
generateSEOMetadataWithAI(r) ==
    LET catch(tried) == IF tried.threw THEN Thrown ELSE tried
    IN  catch(IF r.kind = "rejects" THEN Throw(UpstreamRejection)
              ELSE IF r.kind # "content" \/ r.text = <<>> THEN Throw(EmptyReplyError)
              ELSE parseSeoMetadata(extractJsonFromResponseSeo(r.text)))

\* The metadata requests of the model
MetadataRequests ==
    {NoSvcReq}
      \cup [readable : {TRUE},
            title : {Undefined, JStr(<<>>), JStr(<<"T">>)},
            keyword : {Undefined, JStr(<<>>), JStr(<<"K">>)}]

SeoReplyValues ==
    { JObj(t \o d \o k) :
        t \in TitleMembers,
        d \in { <<>>, << <<kDescription, JStr(<<"D">>)>> >> },
        k \in { <<>> } \cup { << <<kKeywords, v>> >> :
                                v \in {JArr(<<JStr(<<"k">>)>>), JArr(<<>>), JStr(<<>>)} } }
      \cup {JNull, JArr(<<>>), JStr(<<"x">>)}

SeoCompletionOutcomes ==
    { [kind |-> "rejects", text |-> <<>>], [kind |-> "empty", text |-> <<>>] }
      \cup { [kind |-> "content", text |-> Wrap(w, writeJson(x))] :
               w \in Wrappers, x \in SeoReplyValues }

InitMetadata ==
    /\ svc = "seo"
    /\ svcReq \in MetadataRequests
    /\ svcpc = "start"
    /\ svcReply = NoReply
    /\ svcCalls = 0
    /\ svcCaught = <<>>
    /\ svcRes = NoSvcRes
    /\ RecoveryIdle
    /\ PageIdle
    /\ PromptsIdle
    /\ ExportIdle
    /\ ApiIdle

\* Lines 237-248 and 260-364: the body is read and checked, and the
\* completion call is issued
MetadataPOST ==
    /\ svc = "seo"
    /\ svcpc = "start"
    /\ IF ~svcReq.readable
       THEN /\ svcCaught' = BodyUnreadable
            /\ svcRes' = MetadataPOSTcatch(BodyUnreadable)
            /\ svcpc' = "done"
            /\ UNCHANGED svcCalls
       ELSE IF titleOrKeywordMissing(svcReq)
       THEN /\ svcRes' = SvcError(400, "title and keyword are required")
            /\ svcpc' = "done"
            /\ UNCHANGED <<svcCalls, svcCaught>>
       ELSE /\ svcCalls' = svcCalls + 1
            /\ svcpc' = "awaitCompletion"
            /\ UNCHANGED <<svcRes, svcCaught>>
    /\ UNCHANGED <<svc, svcReq, svcReply>>
    /\ UNCHANGED recVars
    /\ UNCHANGED pageVars
    /\ UNCHANGED promptVars
    /\ UNCHANGED expVars
    /\ UNCHANGED apiVars

\* Lines 366-393 and 248-257: the completion call settles and the metadata,
\* or the error, is answered
MetadataCompletionSettles ==
    /\ svc = "seo"
    /\ svcpc = "awaitCompletion"
    /\ \E r \in SeoCompletionOutcomes :
          \E result \in {generateSEOMetadataWithAI(r)} :
              /\ svcReply' = r
              /\ IF result.threw
                 THEN /\ svcCaught' = result.message
                      /\ svcRes' = MetadataPOSTcatch(result.message)
                 ELSE /\ svcRes' = SvcOk(Serialized(result.value))
                      /\ UNCHANGED svcCaught
              /\ svcpc' = "done"
    /\ UNCHANGED <<svc, svcReq, svcCalls>>
    /\ UNCHANGED recVars
    /\ UNCHANGED pageVars
    /\ UNCHANGED promptVars
    /\ UNCHANGED expVars
    /\ UNCHANGED apiVars

----------------------------------------------------------------------------
(* The three generation endpoints together: one request to one of them *)

InitServices ==
    \/ InitArticle
    \/ InitTitles
    \/ InitMetadata

NextServices ==
    \/ ArticlePOST
    \/ CompletionSettles
    \/ SeoSettles
    \/ TitlesPOST
    \/ TitlesCompletionSettles
    \/ MetadataPOST
    \/ MetadataCompletionSettles

SpecServices == InitServices /\ [][NextServices]_vars

\* A required field is absent or empty
NotGiven(x) == x = Undefined \/ x = JStr(<<>>)

\* C13: a title request without a non-empty keyword, and an article or
\* metadata request without a non-empty title or without a non-empty
\* keyword, never has a call to the hosted generation endpoint or a
\* dependent metadata call made for it, and is answered with HTTP 400 and
\* an error body.
C13_ValidationPrecedesUpstream ==
    /\ (apc # "idle" /\ apiReq.readable
            /\ (NotGiven(apiReq.title) \/ NotGiven(apiReq.keyword))) =>
          /\ calls = NoCalls
          /\ apc # "start" =>
                /\ apc = "done"
                /\ apiRes.status = 400
                /\ apiRes.error # ""
                /\ apiRes.article = Undefined
    /\ (svc = "titles" /\ svcReq.readable /\ NotGiven(svcReq.keyword)) =>
          /\ svcCalls = 0
          /\ svcpc # "start" =>
                /\ svcpc = "done"
                /\ svcRes.status = 400
                /\ svcRes.error # ""
                /\ svcRes.body = Undefined
    /\ (svc = "seo" /\ svcReq.readable
            /\ (NotGiven(svcReq.title) \/ NotGiven(svcReq.keyword))) =>
          /\ svcCalls = 0
          /\ svcpc # "start" =>
                /\ svcpc = "done"
                /\ svcRes.status = 400
                /\ svcRes.error # ""
                /\ svcRes.body = Undefined

\* C13 witness: an article request with a title and an empty keyword was
\* answered with 400 and no call was made.
C13_Witness ==
    /\ apc = "done"
    /\ apiReq.readable
    /\ apiReq.title = JStr(<<"T">>)
    /\ apiReq.keyword = JStr(<<>>)
    /\ apiRes.status = 400
    /\ calls = NoCalls

----------------------------------------------------------------------------
(* The generation services: the errors their callers receive *)

\* sub occurs in s as a run of consecutive items
Contains(s, sub) == \E i \in 1..(Len(s) - Len(sub) + 1) : MatchAt(s, i, sub)

\* The text Text Recovery makes of a reply
Recovered(r) == extractJsonFromResponse(r.text)

\* The completion call of the request answered with a text whose recovered
\* form JSON.parse rejects
Unparseable(r) == r.kind = "content" /\ r.text # <<>> /\ ~JSONparse(Recovered(r)).ok

\* C14: when the recovered text fails to parse as JSON, the error the
\* generation service throws to its caller contains the JSON parser's
\* message.
C14_ParserMessageCarried ==
    /\ (apc = "done" /\ Unparseable(reply)) =>
          Contains(caught, parserMessage(Recovered(reply)))
    /\ (svcpc = "done" /\ Unparseable(svcReply)) =>
          Contains(svcCaught, parserMessage(Recovered(svcReply)))

\* The recovered text of the reply parses as JSON but the value lacks one of
\* the top-level members in keys, or its member arrayKey is no array
Mismatched(r, keys, arrayKey) ==
    /\ r.kind = "content"
    /\ r.text # <<>>
    /\ JSONparse(Recovered(r)).ok
    /\ \/ \E k \in keys : ~HasOwn(JSONparse(Recovered(r)).val, k)
       \/ arrayKey # <<>> /\ Get(JSONparse(Recovered(r)).val, arrayKey).t # "arr"

\* A reply no Text Recovery makes JSON of
BrokenReply == [kind |-> "content", text |-> <<"{">>]

\* C15: when the recovered text parses as JSON but lacks the required
\* top-level shape, the error the generation service fails with is distinct
\* from the error it fails with on a parse failure.
C15_MalformedDistinctFromUnparseable ==
    /\ (apc = "done" /\ Mismatched(reply, {kTitle, kSections}, kSections)) =>
          caught # generateOptimizedArticleWithAI(BrokenReply).message
    /\ (svc = "titles" /\ svcpc = "done" /\ Mismatched(svcReply, {kTitles}, kTitles)) =>
          svcCaught # generateOptimizedTitlesWithAI(BrokenReply).message
    /\ (svc = "seo" /\ svcpc = "done"
            /\ Mismatched(svcReply, {kTitle, kDescription, kKeywords}, <<>>)) =>
          svcCaught # generateSEOMetadataWithAI(BrokenReply).message

\* The completion call failed, or its reply was not accepted: it rejected,
\* it had no content, the recovered text was no JSON, or the JSON lacked the
\* shape
FailedUpstream(r, keys, arrayKey) ==
    \/ r.kind \in {"rejects", "empty"}
    \/ Unparseable(r)
    \/ Mismatched(r, keys, arrayKey)

\* C16: every upstream or parsing failure of a generation endpoint (empty
\* reply, upstream exception, unparseable reply, malformed reply) is answered
\* with HTTP 500 and the endpoint's fixed error message and nothing else, so
\* the body is the same whatever the reply text or the parser's message was.
C16_FixedFailureBody ==
    /\ (apc = "done" /\ FailedUpstream(reply, {kTitle, kSections}, kSections)) =>
          apiRes = [status |-> 500, article |-> Undefined,
                    error |-> "article generation failed"]
    /\ (svc = "titles" /\ svcpc = "done" /\ FailedUpstream(svcReply, {kTitles}, kTitles)) =>
          svcRes = [status |-> 500, body |-> Undefined,
                    error |-> "title generation failed"]
    /\ (svc = "seo" /\ svcpc = "done"
            /\ FailedUpstream(svcReply, {kTitle, kDescription, kKeywords}, <<>>)) =>
          svcRes = [status |-> 500, body |-> Undefined,
                    error |-> "SEO metadata generation failed"]

\* C16 witness: an article request whose reply was cut off was answered with
\* 500 and the fixed message.
C16_Witness ==
    /\ apc = "done"
    /\ Unparseable(reply)
    /\ Contains(reply.text, kSections)
    /\ apiRes.status = 500
    /\ apiRes.error = "article generation failed"

\* The completion call of the request has failed: it rejected or had no
\* content
UpstreamFailed(r) == r.kind \in {"rejects", "empty"}

\* C17: no retries.  Each generation-service invocation issues at most one
\* call to the hosted generation endpoint and an article request at most one
\* dependent metadata call; once the completion call has failed no further
\* upstream call is made for the request: the counters stay at one
\* completion call and no metadata call up to and including the response.
C17_NoRetries ==
    /\ calls.completion <= 1
    /\ calls.metadata <= 1
    /\ svcCalls <= 1
    /\ UpstreamFailed(reply) =>
          /\ calls = [completion |-> 1, metadata |-> 0]
          /\ apc = "done"
          /\ apiRes.status = 500
    /\ UpstreamFailed(svcReply) =>
          /\ svcCalls = 1
          /\ svcpc = "done"
          /\ svcRes.status = 500

\* C17 witness: a title request whose completion call rejected was answered
\* after that one call.
C17_Witness ==
    /\ svc = "titles"
    /\ svcpc = "done"
    /\ svcReply.kind = "rejects"
    /\ svcCalls = 1
    /\ svcRes.status = 500

----------------------------------------------------------------------------
(* The export endpoint: formats *)

ExportDone == epc = "done"

\* C19: an export request whose format is neither 'markdown' nor 'html' is
\* answered with an error and no document: the response has an error
\* status and message, no document body and no attachment header.
C19_UnsupportedFormatNoDocument ==
    (ExportDone /\ exportReq.format \notin {JStr(<<"markdown">>), JStr(<<"html">>)}) =>
        /\ exportRes.status = 400
        /\ exportRes.error # ""
        /\ exportRes.body = <<>>
        /\ exportRes.disposition = <<>>
        /\ exportRes.contentType = "application/json"

\* C19 witness: a request for the format 'pdf' with an article was answered
\* with the unsupported-format error.
C19_Witness ==
    /\ ExportDone
    /\ exportReq.format = JStr(<<"pdf">>)
    /\ Truthy(exportReq.article)
    /\ exportRes.status = 400
    /\ exportRes.error = "unsupported format"
    /\ exportRes.body = <<>>


----------------------------------------------------------------------------
\* The Markdown round trip: the exported document is read back by splitting
\* it at the lines that begin with '# ', '## ' or '### '.

\* The document as one text: the chunks of the body in order
DocumentText(body) == Flat([i \in 1..Len(body) |-> body[i].text])

Whitespace == {"\n", " "}

RECURSIVE TrimEnd(_)
TrimEnd(s) ==
    IF s # <<>> /\ s[Len(s)] \in Whitespace THEN TrimEnd(SubSeq(s, 1, Len(s) - 1)) ELSE s

LineStart(text, i) == i = 1 \/ text[i - 1] = "\n"

Hashes(text, i, n) == i + n <= Len(text) /\ \A k \in 0..(n - 1) : text[i + k] = "#"

\* The level of the heading marker that begins at i, 0 when there is none
MarkerAt(text, i) ==
    IF ~LineStart(text, i) THEN 0
    ELSE IF Hashes(text, i, 1) /\ text[i + 1] = " " THEN 1
    ELSE IF Hashes(text, i, 2) /\ text[i + 2] = " " THEN 2
    ELSE IF Hashes(text, i, 3) /\ text[i + 3] = " " THEN 3
    ELSE 0

\* Where the footer begins: the last line that is the rule '---'
FooterAt(text) ==
    LET rules == {i \in 1..Len(text) : LineStart(text, i) /\ text[i] = "---"}
    IN  IF rules = {} THEN Len(text) + 1
        ELSE CHOOSE i \in rules : \A j \in rules : j <= i

\* The first marker at or after i, or the end when there is none
RECURSIVE NextMarker(_, _, _)
NextMarker(text, i, end) ==
    IF i >= end THEN end
    ELSE IF MarkerAt(text, i) > 0 THEN i
    ELSE NextMarker(text, i + 1, end)

\* The first line break at or after i, or the end when there is none
RECURSIVE LineEnd(_, _, _)
LineEnd(text, i, end) ==
    IF i >= end THEN end
    ELSE IF text[i] = "\n" THEN i
    ELSE LineEnd(text, i + 1, end)

\* The part that begins with the marker at i and ends before end: its level,
\* the rest of the marker's line, and what follows the blank line after it
PartAt(text, i, end) ==
    LET level == MarkerAt(text, i)
        from == i + level + 1
        eol == LineEnd(text, from, end)
        rest == SubSeq(text, eol + 1, end - 1)
        body == IF rest # <<>> /\ rest[1] = "\n" THEN SubSeq(rest, 2, Len(rest)) ELSE rest
    IN  [level |-> level,
         heading |-> TrimEnd(SubSeq(text, from, eol - 1)),
         body |-> TrimEnd(body)]

RECURSIVE PartsFrom(_, _, _)
PartsFrom(text, i, end) ==
    IF i >= end THEN <<>>
    ELSE LET next == NextMarker(text, i + 1, end)
         IN  <<PartAt(text, i, next)>> \o PartsFrom(text, next, end)

\* The parts of the document, in order
SplitMarkdown(text) ==
    LET split(end) == PartsFrom(text, NextMarker(text, 1, end), end)
    IN  split(FooterAt(text))

\* The parts the article was written from: the title, then every section
\* followed by its subsections
SubPart(sub) == [level |-> 3, heading |-> TrimEnd(sub.title.v), body |-> TrimEnd(sub.content.v)]

SectionParts(section) ==
    <<[level |-> 2, heading |-> TrimEnd(section.heading.v), body |-> TrimEnd(section.content.v)]>>
        \o [j \in 1..Len(Elems(section.subheadings)) |-> SubPart(section.subheadings.v[j])]

ArticleParts(article) ==
    <<[level |-> 1, heading |-> TrimEnd(article.title.v), body |-> <<>>]>>
        \o Flat([i \in 1..Len(Elems(article.sections)) |->
                    SectionParts(article.sections.v[i])])

\* The title, headings and bodies of the article are all strings
TextsAreStrings(article) ==
    /\ article.t = "obj"
    /\ article.title.t = "str"
    /\ article.sections.t = "arr"
    /\ \A i \in 1..Len(article.sections.v) :
          LET section == article.sections.v[i]
          IN  /\ section.heading.t = "str"
              /\ section.content.t = "str"
              /\ section.subheadings.t \in {"arr", "undefined"}
              /\ \A j \in 1..Len(Elems(section.subheadings)) :
                    /\ section.subheadings.v[j].title.t = "str"
                    /\ section.subheadings.v[j].content.t = "str"

MarkdownExported ==
    /\ ExportDone
    /\ exportReq.format = JStr(<<"markdown">>)
    /\ exportRes.status = 200
    /\ TextsAreStrings(exportReq.article)

\* C20: splitting the Markdown export at the lines that begin with '# ',
\* '## ' or '### ' recovers the article's title, section headings and
\* bodies exactly and in order, up to trailing whitespace.
C20_MarkdownRoundTrip ==
    MarkdownExported =>
        SplitMarkdown(DocumentText(exportRes.body)) = ArticleParts(exportReq.article)

----------------------------------------------------------------------------
\* Metadata inclusion in the exported documents

\* The chunk at i is the template's text s
TemplateChunk(body, i, s) ==
    i \in 1..Len(body) /\ body[i].site = "template" /\ body[i].text = s

HasTemplateChunk(body, s) == \E i \in 1..Len(body) : TemplateChunk(body, i, s)

MetadataRequested ==
    Truthy(exportReq.options.includeSEO) /\ Truthy(exportReq.article.seoMetadata)

Exported(format) ==
    ExportDone /\ exportReq.format = JStr(<<format>>) /\ exportRes.status = 200

\* The front-matter block opens the Markdown document
FrontMatterEmitted ==
    /\ TemplateChunk(exportRes.body, 1, <<"---", "\n">>)
    /\ TemplateChunk(exportRes.body, 2, <<"title: \"">>)

\* The Markdown document starts with the level-1 heading of the title
StartsWithTitleHeading ==
    /\ TemplateChunk(exportRes.body, 1, <<"#", " ">>)
    /\ exportRes.body[2] = [site |-> "title", text |-> ToStr(exportReq.article.title)]

MetaTagsEmitted ==
    \E tag \in {"  <meta name=\"description\" content=\"",
                "  <meta name=\"keywords\" content=\"",
                "  <meta name=\"robots\" content=\"",
                "  <meta property=\"og:title\" content=\"",
                "  <meta property=\"og:description\" content=\"",
                "  <meta property=\"og:type\" content=\"article\">\n",
                "  <meta name=\"twitter:card\" content=\"summary_large_image\">\n",
                "  <meta name=\"twitter:title\" content=\"",
                "  <meta name=\"twitter:description\" content=\""} :
        HasTemplateChunk(exportRes.body, <<tag>>)

AllMetaTagsEmitted ==
    \A tag \in {"  <meta name=\"description\" content=\"",
                "  <meta name=\"keywords\" content=\"",
                "  <meta name=\"robots\" content=\"",
                "  <meta property=\"og:title\" content=\"",
                "  <meta property=\"og:description\" content=\"",
                "  <meta property=\"og:type\" content=\"article\">\n",
                "  <meta name=\"twitter:card\" content=\"summary_large_image\">\n",
                "  <meta name=\"twitter:title\" content=\"",
                "  <meta name=\"twitter:description\" content=\""} :
        HasTemplateChunk(exportRes.body, <<tag>>)

BannerEmitted == HasTemplateChunk(exportRes.body, <<"  <div class=\"meta-info\">\n">>)

\* The page title is the escaped title of the article
BareTitleIsPageTitle ==
    \E i \in 1..Len(exportRes.body) :
        /\ TemplateChunk(exportRes.body, i, <<"  <title>">>)
        /\ exportRes.body[i + 1] =
              [site |-> "title", text |-> escapeHtml(exportReq.article.title.v)]
        /\ TemplateChunk(exportRes.body, i + 2, <<"</title>\n">>)

\* C21: in a successful export the Markdown front-matter block, and in
\* HTML the metadata meta tags and the article-info banner, are emitted if
\* and only if includeSEO is requested and the article has seoMetadata; in
\* every other case the HTML title is the escaped bare article title and the
\* Markdown document starts with the level-1 title heading.
C21_MetadataIffRequested ==
    /\ Exported("markdown") =>
          /\ FrontMatterEmitted <=> MetadataRequested
          /\ ~MetadataRequested => StartsWithTitleHeading
    /\ Exported("html") =>
          /\ MetadataRequested => (AllMetaTagsEmitted /\ BannerEmitted)
          /\ ~MetadataRequested =>
                (~MetaTagsEmitted /\ ~BannerEmitted /\ BareTitleIsPageTitle)

\* C21 witness: an export with includeSEO set of an article that carries
\* seoMetadata returned a document with the front-matter block (Markdown) or
\* the article-info banner (HTML).
C21_Witness ==
    /\ \/ Exported("markdown") /\ FrontMatterEmitted
       \/ Exported("html") /\ BannerEmitted
    /\ MetadataRequested

----------------------------------------------------------------------------
\* The headers of a successful export

\* The file name the request gives, <<>> when it gives none
GivenFilename ==
    IF exportReq.options.filename.t = "str" THEN exportReq.options.filename.v ELSE <<>>

AttachmentOf(filename) ==
    <<"attachment; filename=\"">> \o encodeURIComponent(filename) \o <<"\"">>

\* No character that ends or breaks the quoted file name is left in it
Encoded22(header) ==
    \A i \in 2..(Len(header) - 1) : header[i] \notin {"\"", " ", "/", "%"}

\* C22: a successful export has Content-Type text/markdown for the format
\* 'markdown' and text/html for 'html' (with the charset utf-8), and a
\* Content-Disposition attachment header whose file name is the
\* percent-encoded options.filename, or the percent-encoded default
\* 'article.md' / 'article.html' when no file name is given.
C22_ExportHeaders ==
    /\ Exported("markdown") =>
          /\ exportRes.contentType = "text/markdown; charset=utf-8"
          /\ exportRes.disposition =
                AttachmentOf(IF GivenFilename # <<>> THEN GivenFilename
                             ELSE <<"article.md">>)
          /\ Encoded22(exportRes.disposition)
    /\ Exported("html") =>
          /\ exportRes.contentType = "text/html; charset=utf-8"
          /\ exportRes.disposition =
                AttachmentOf(IF GivenFilename # <<>> THEN GivenFilename
                             ELSE <<"article.html">>)
          /\ Encoded22(exportRes.disposition)

\* C22 witness: an HTML export whose file name holds a slash, a quote and a
\* percent sign returned a document whose header carries them encoded.
C22_Witness ==
    /\ Exported("html")
    /\ GivenFilename = <<"a", "/", "\"", "%">>
    /\ exportRes.disposition = <<"attachment; filename=\"", "a", "%2F", "%22", "%25", "\"">>

----------------------------------------------------------------------------
\* The page (src/app/page.tsx): Home's state, the two click handlers that
\* call the title and the article endpoint, and the edits of the form.
\* A handler runs to its next await in one step; React renders the state it
\* set before the next event of the user is handled.

\* Calls of generateTitles and generateArticle that may be running at once
MaxInFlight == 2

\* What the user types
Keywords == {<<>>, <<" ">>, <<"k">>}
Overviews == {<<>>, <<"o">>}
BaseUrls == {<<>>, <<"u">>}

\* data.titles of a 200 answer of the title endpoint
TitleOf(n) ==
    [t |-> "obj", id |-> <<"ai-title-">> \o decimal(n), title |-> <<"T">> \o decimal(n),
     description |-> <<"D">>]
TitleData == {<<>>, <<TitleOf(1)>>, <<TitleOf(1), TitleOf(2)>>}

\* data.article of a 200 answer of the article endpoint
ArticleData == {[t |-> "obj", v |-> <<"article">>]}

\* How a fetch settles: it resolves with a 2xx response, resolves with
\* another status, or rejects; response.json() can reject on either response
FetchOutcomes == {"ok", "http_error", "bad_json", "network_error"}

Invocation(fn, pc) == [fn |-> fn, pc |-> pc]

Remove(s, i) == SubSeq(s, 1, i - 1) \o SubSeq(s, i + 1, Len(s))

\* disabled={!keyword.trim() || isGeneratingTitles}: the button that stays
\* enabled while an article is generated
titlesButtonDisabled_ignoresArticle ==
    trim(page.keyword) = <<>> \/ page.isGeneratingTitles

\* disabled={!keyword.trim() || isGeneratingTitles || isGeneratingArticle}
titlesButtonDisabled ==
    trim(page.keyword) = <<>> \/ page.isGeneratingTitles \/ page.isGeneratingArticle

\* onChange={(e) => setKeyword(e.target.value)}
setKeyword ==
    /\ \E value \in Keywords \ {page.keyword} : page' = [page EXCEPT !.keyword = value]
    /\ UNCHANGED <<invocations, net>>
    /\ UNCHANGED <<recVars, expVars, apiVars, svcVars, promptVars>>

\* onChange={(e) => setOverview(e.target.value)}
setOverview ==
    /\ \E value \in Overviews \ {page.overview} : page' = [page EXCEPT !.overview = value]
    /\ UNCHANGED <<invocations, net>>
    /\ UNCHANGED <<recVars, expVars, apiVars, svcVars, promptVars>>

\* onChange={(e) => setGenerateSEO(e.target.checked)}
setGenerateSEO ==
    /\ page' = [page EXCEPT !.generateSEO = ~page.generateSEO]
    /\ UNCHANGED <<invocations, net>>
    /\ UNCHANGED <<recVars, expVars, apiVars, svcVars, promptVars>>

\* onChange={(e) => setBaseUrl(e.target.value)}: the field is rendered while
\* generateSEO is set
setBaseUrl ==
    /\ page.generateSEO
    /\ \E value \in BaseUrls \ {page.baseUrl} : page' = [page EXCEPT !.baseUrl = value]
    /\ UNCHANGED <<invocations, net>>
    /\ UNCHANGED <<recVars, expVars, apiVars, svcVars, promptVars>>

\* A click on the title button: generateTitles up to its await fetch(...)
generateTitles ==
    /\ ~titlesButtonDisabled
    /\ Len(invocations) < MaxInFlight
    /\ IF trim(page.keyword) = <<>>
       THEN UNCHANGED pageVars
       ELSE /\ page' = [page EXCEPT !.isGeneratingTitles = TRUE, !.generatedTitles = <<>>]
            /\ invocations' = Append(invocations, Invocation("generateTitles", "fetch"))
            /\ net' = [net EXCEPT !.titles =
                          [NoSent EXCEPT !.sent = TRUE, !.outcome = "pending",
                                         !.keyword = page.keyword,
                                         !.overview = page.overview]]
    /\ UNCHANGED <<recVars, expVars, apiVars, svcVars, promptVars>>

\* generateTitles from the settling of fetch: a rejection runs catch and
\* finally, a response leads to await response.json()
TitlesFetchSettles ==
    \E i \in 1..Len(invocations), outcome \in FetchOutcomes :
        /\ invocations[i] = Invocation("generateTitles", "fetch")
        /\ net' = [net EXCEPT !.titles.outcome = outcome]
        /\ IF outcome = "network_error"
           THEN /\ page' = [page EXCEPT !.isGeneratingTitles = FALSE]
                /\ invocations' = Remove(invocations, i)
           ELSE /\ invocations' = [invocations EXCEPT ![i].pc = "json"]
                /\ UNCHANGED page
        /\ UNCHANGED <<recVars, expVars, apiVars, svcVars, promptVars>>

\* TitlesJsonSettles without the finally block: the flag is cleared only
\* where the titles are set
TitlesJsonSettles_noFinally ==
    \E i \in 1..Len(invocations), titles \in TitleData :
        /\ invocations[i] = Invocation("generateTitles", "json")
        /\ page' = [page EXCEPT
                        !.generatedTitles =
                            IF net.titles.outcome = "ok" THEN titles ELSE @,
                        !.isGeneratingTitles =
                            IF net.titles.outcome = "ok" THEN FALSE ELSE @]
        /\ invocations' = Remove(invocations, i)
        /\ UNCHANGED net
        /\ UNCHANGED <<recVars, expVars, apiVars, svcVars, promptVars>>

\* generateTitles from the settling of response.json() to its return
TitlesJsonSettles ==
    \E i \in 1..Len(invocations), titles \in TitleData :
        /\ invocations[i] = Invocation("generateTitles", "json")
        /\ page' = [page EXCEPT
                        !.generatedTitles =
                            IF net.titles.outcome = "ok" THEN titles ELSE @,
                        !.isGeneratingTitles = FALSE]
        /\ invocations' = Remove(invocations, i)
        /\ UNCHANGED net
        /\ UNCHANGED <<recVars, expVars, apiVars, svcVars, promptVars>>

\* A click on the card of a title:
\* !isGeneratingArticle && generateArticle(titleObj), up to its await fetch(...)
generateArticle ==
    \E k \in 1..Len(page.generatedTitles) :
        /\ Len(invocations) < MaxInFlight
        /\ IF page.isGeneratingArticle
           THEN UNCHANGED pageVars
           ELSE /\ page' = [page EXCEPT !.selectedTitle = page.generatedTitles[k],
                                        !.isGeneratingArticle = TRUE,
                                        !.generatedArticle = JNull]
                /\ invocations' = Append(invocations, Invocation("generateArticle", "fetch"))
                /\ net' = [net EXCEPT !.article =
                              [sent |-> TRUE, outcome |-> "pending",
                               keyword |-> page.keyword, overview |-> page.overview,
                               title |-> page.generatedTitles[k],
                               generateSEO |-> page.generateSEO,
                               baseUrl |-> IF trim(page.baseUrl) # <<>>
                                           THEN JStr(trim(page.baseUrl))
                                           ELSE Undefined]]
        /\ UNCHANGED <<recVars, expVars, apiVars, svcVars, promptVars>>

\* generateArticle from the settling of fetch
ArticleFetchSettles ==
    \E i \in 1..Len(invocations), outcome \in FetchOutcomes :
        /\ invocations[i] = Invocation("generateArticle", "fetch")
        /\ net' = [net EXCEPT !.article.outcome = outcome]
        /\ IF outcome = "network_error"
           THEN /\ page' = [page EXCEPT !.isGeneratingArticle = FALSE]
                /\ invocations' = Remove(invocations, i)
           ELSE /\ invocations' = [invocations EXCEPT ![i].pc = "json"]
                /\ UNCHANGED page
        /\ UNCHANGED <<recVars, expVars, apiVars, svcVars, promptVars>>

\* generateArticle from the settling of response.json() to its return
ArticleJsonSettles ==
    \E i \in 1..Len(invocations), article \in ArticleData :
        /\ invocations[i] = Invocation("generateArticle", "json")
        /\ page' = [page EXCEPT
                        !.generatedArticle =
                            IF net.article.outcome = "ok" THEN article ELSE @,
                        !.isGeneratingArticle = FALSE]
        /\ invocations' = Remove(invocations, i)
        /\ UNCHANGED net
        /\ UNCHANGED <<recVars, expVars, apiVars, svcVars, promptVars>>

InitPage ==
    /\ PageIdle
    /\ PromptsIdle
    /\ RecoveryIdle
    /\ ExportIdle
    /\ ApiIdle
    /\ SvcIdle

NextPage ==
    \/ setKeyword
    \/ setOverview
    \/ setGenerateSEO
    \/ setBaseUrl
    \/ generateTitles
    \/ TitlesFetchSettles
    \/ TitlesJsonSettles
    \/ generateArticle
    \/ ArticleFetchSettles
    \/ ArticleJsonSettles

SpecPage == InitPage /\ [][NextPage]_vars

\* The page with the event loop running every continuation that is ready
SpecPageLive ==
    /\ SpecPage
    /\ WF_vars(TitlesJsonSettles)
    /\ WF_vars(ArticleJsonSettles)

----------------------------------------------------------------------------
\* The user has selected a title and the article request has been sent
TitleSelected == page.selectedTitle # NoTitle /\ net.article.sent

\* C23: after the user selects a title for article generation, the list of
\* generated title candidates the page holds is empty.
C23_CandidatesDiscardedOnSelection ==
    TitleSelected => page.generatedTitles = <<>>

\* Calls of fn that have not returned
InFlight(fn) == {i \in 1..Len(invocations) : invocations[i].fn = fn}

\* C26: at most one title-generation request and at most one
\* article-generation request is in flight, never one of each at the same
\* time, and isGeneratingTitles and isGeneratingArticle are never both true.
C26_SingleFlight ==
    /\ Cardinality(InFlight("generateTitles")) <= 1
    /\ Cardinality(InFlight("generateArticle")) <= 1
    /\ InFlight("generateTitles") = {} \/ InFlight("generateArticle") = {}
    /\ ~(page.isGeneratingTitles /\ page.isGeneratingArticle)

\* C26 witness: an article request is in flight while the keyword field
\* is filled in, so that only the disabled state of the title button
\* keeps a title request from being sent.
C26_Witness ==
    /\ InFlight("generateArticle") # {}
    /\ page.isGeneratingArticle
    /\ trim(page.keyword) # <<>>
    /\ ~page.isGeneratingTitles

----------------------------------------------------------------------------
\* The fetch of a call of fn has settled and the call has not returned yet
Settling(fn) == \E i \in InFlight(fn) : invocations[i].pc = "json"

ArticleGenerationFailed ==
    net.article.outcome \in {"http_error", "bad_json", "network_error"}

\* C27: after a title-generation or article-generation request settles in
\* any way, its flag isGeneratingTitles / isGeneratingArticle eventually
\* becomes false; a flag is set only while its call has not returned, so the
\* page is never left disabled; after a failed article generation no article
\* is displayed.
C27_FlagsAlwaysClear ==
    /\ Settling("generateTitles") ~> ~page.isGeneratingTitles
    /\ Settling("generateArticle") ~> ~page.isGeneratingArticle
    /\ [](page.isGeneratingTitles => InFlight("generateTitles") # {})
    /\ [](page.isGeneratingArticle => InFlight("generateArticle") # {})
    /\ [](ArticleGenerationFailed => page.generatedArticle = JNull)

\* C27 witness: an article request failed with an HTTP error response, its
\* flag is cleared again and no article is shown; an earlier title
\* request had succeeded.
C27_Witness ==
    /\ net.article.outcome = "http_error"
    /\ InFlight("generateArticle") = {}
    /\ ~page.isGeneratingArticle
    /\ page.generatedArticle = JNull
    /\ net.titles.outcome = "ok"

----------------------------------------------------------------------------
\* C28: the keyword and the overview sent with an article-generation request
\* are the ones that were sent with the title-generation request that
\* produced the selected title, whatever the user edited and clicked. While
\* the article request is in flight no further title request is sent, so the
\* last title request is the one that produced the title.
C28_KeywordConsistency ==
    InFlight("generateArticle") # {} =>
        /\ net.article.keyword = net.titles.keyword
        /\ net.article.overview = net.titles.overview

----------------------------------------------------------------------------
\* Prompt construction: the system and user messages the three generation
\* functions hand to the completion call.  The fixed text of a template is
\* one item per stretch between two interpolations.

\* Builds that are compared with one another
MaxBuilds == 2

\* content.substring(0, 1000)
ExcerptLength == 1000

\* new Date().toISOString().split('T')[0] on the days the service may run
Days == {"2026-11-06", "2026-11-07"}

\* `${x}` in a template literal
Interpolate(x) == ToStr(x)

\* `${x ? `label${x}` : ''}`
Optional(label, x) == IF Truthy(x) THEN <<label>> \o Interpolate(x) ELSE <<>>

\* generateOptimizedTitlesWithAI: systemPrompt and userPrompt
titlesMessages(keyword, overview) ==
    [system |-> <<"titles system prompt">>,
     user |-> <<"keyword: ">> \o Interpolate(keyword) \o <<"\n">>
                \o Optional("context: ", overview)
                \o <<"\n\ntask and output format of the titles">>]

\* generateOptimizedArticleWithAI: systemPrompt and userPrompt
articleMessages(title, description, keyword, overview) ==
    [system |-> <<"article system prompt">>,
     user |-> <<"article spec\ntitle: ">> \o Interpolate(title)
                \o <<"\nkeyword: ">> \o Interpolate(keyword)
                \o <<"  \noverview: ">> \o Interpolate(description) \o <<"\n">>
                \o Optional("context: ", overview)
                \o <<"\n\nmission, structure and output format of the article; keyword [">>
                \o Interpolate(keyword) \o <<"] two or three times per section">>]

\* generateSEOMetadataWithAI: systemPrompt and userPrompt; the two dates are
\* read from the clock one after the other
seoMessages(title, content, keyword, description, baseUrl, published, modified) ==
    [system |-> <<"metadata system prompt">>,
     user |-> <<"content info\ntitle: ">> \o Interpolate(title)
                \o <<"\nkeyword: ">> \o Interpolate(keyword) \o <<"\n">>
                \o Optional("overview: ", description) \o <<"\n">>
                \o (IF Truthy(content)
                    THEN <<"excerpt: ">>
                            \o substring(content.v, 0,
                                         IF Len(content.v) < ExcerptLength
                                         THEN Len(content.v) ELSE ExcerptLength)
                            \o <<"...">>
                    ELSE <<>>)
                \o <<"\n">>
                \o Optional("base url: ", baseUrl)
                \o <<"\n\noutput format ... \"canonicalUrl\": \"">>
                \o (IF Truthy(baseUrl) THEN Interpolate(baseUrl) \o <<"/article-slug">>
                    ELSE <<"https://example.com/article-slug">>)
                \o <<"\", ... \"datePublished\": \"">> \o <<published>>
                \o <<"\",\n    \"dateModified\": \"">> \o <<modified>>
                \o <<"\", ... check: keyword [">> \o Interpolate(keyword)
                \o <<"] is placed naturally ...">>]

\* The values of an input field of a prompt
PromptFields == {Undefined, JStr(<<>>), JStr(<<"a">>)}

Built(task, input, day, messages) ==
    [task |-> task, input |-> input, day |-> day, messages |-> messages]

InitPrompts ==
    /\ PromptsIdle
    /\ PageIdle
    /\ RecoveryIdle
    /\ ExportIdle
    /\ ApiIdle
    /\ SvcIdle

BuildTitlesPrompt ==
    /\ Len(built) < MaxBuilds
    /\ \E keyword \in PromptFields, overview \in PromptFields, day \in Days :
          built' = Append(built,
                          Built("titles", <<keyword, overview>>, day,
                                titlesMessages(keyword, overview)))
    /\ UNCHANGED <<recVars, expVars, apiVars, svcVars, pageVars>>

BuildArticlePrompt ==
    /\ Len(built) < MaxBuilds
    /\ \E title \in {JStr(<<"a">>)}, description \in {JStr(<<"a">>)},
          keyword \in PromptFields \ {Undefined}, overview \in PromptFields, day \in Days :
          built' = Append(built,
                          Built("article", <<title, description, keyword, overview>>, day,
                                articleMessages(title, description, keyword, overview)))
    /\ UNCHANGED <<recVars, expVars, apiVars, svcVars, pageVars>>

\* The clock is read twice; the second reading is not before the first
BuildSeoPrompt ==
    /\ Len(built) < MaxBuilds
    /\ \E title \in {JStr(<<"a">>)}, content \in PromptFields \ {Undefined},
          keyword \in {JStr(<<"a">>)}, description \in PromptFields,
          baseUrl \in PromptFields \ {JStr(<<>>)}, day \in Days :
          \E modified \in {d \in Days : d = day \/ d = "2026-11-07"} :
              built' = Append(built,
                              Built("metadata",
                                    <<title, content, keyword, description, baseUrl>>, day,
                                    seoMessages(title, content, keyword, description,
                                                baseUrl, day, modified)))
    /\ UNCHANGED <<recVars, expVars, apiVars, svcVars, pageVars>>

NextPrompts ==
    \/ BuildTitlesPrompt
    \/ BuildArticlePrompt
    \/ BuildSeoPrompt

SpecPrompts == InitPrompts /\ [][NextPrompts]_vars

\* Two builds of the same task from the same input fields
SameInvocation(a, b) == a.task = b.task /\ a.input = b.input

\* C24: for each of the three tasks, two invocations with identical input
\* fields build identical system and user messages, whenever they run.
C24_PromptsDeterministic ==
    \A i, j \in 1..Len(built) :
        SameInvocation(built[i], built[j]) => built[i].messages = built[j].messages

----------------------------------------------------------------------------
\* The metadata of an article as the metadata service parsed it: the members
\* its structural validation reads
AsParsedSeo(seo) ==
    JObj(<< <<kTitle, seo.title>>, <<kDescription, seo.description>>,
            <<kKeywords, seo.keywords>> >>)

\* The metadata service accepts the value as valid
AcceptedSeo(seo) == seo.t = "obj" /\ validSeoStructure(AsParsedSeo(seo))

\* The rest of the article is as the article service returns it
ArticleBodyWellFormed(article) ==
    /\ TextsAreStrings(article)
    /\ \A i \in 1..Len(article.sections.v) : article.sections.v[i].subheadings.t = "arr"

\* C25: every SEOMetadata value that the metadata service accepts as valid
\* can be exported with includeSEO set: the Markdown and the HTML export of
\* an article carrying it return a document and never fail with HTTP 500.
C25_AcceptedMetadataExports ==
    (/\ ExportDone
     /\ exportReq.format \in {JStr(<<"markdown">>), JStr(<<"html">>)}
     /\ Truthy(exportReq.options.includeSEO)
     /\ ArticleBodyWellFormed(exportReq.article)
     /\ AcceptedSeo(exportReq.article.seoMetadata)) =>
        exportRes.status = 200

----------------------------------------------------------------------------
\* The four endpoints together: one request to one of them

InitEndpoints ==
    \/ InitServices
    \/ InitExport

NextEndpoints ==
    \/ NextServices
    \/ NextExport

SpecEndpoints == InitEndpoints /\ [][NextEndpoints]_vars

\* The handler of the request has returned
EndpointDone == apc = "done" \/ svcpc = "done" \/ epc = "done"

\* The request delivered a JSON body
JsonDelivered == (apc # "idle" => apiReq.readable) /\ (svcpc # "idle" => svcReq.readable)

\* The response the request has received: that of its endpoint
Answered ==
    /\ apc = "done" => apiRes.status \in {200, 400, 500}
    /\ svcpc = "done" => svcRes.status \in {200, 400, 500}
    /\ epc = "done" => exportRes.status \in {200, 400, 500}

Unanswered == apiRes = NoApiRes /\ svcRes = NoSvcRes /\ exportRes = NoExportRes

\* A handler has a step to take.  ExportPOST is enabled exactly when epc is
\* "start": its other conjuncts assign the next state.
HandlerCanStep == ENABLED NextServices \/ epc = "start"

\* C29: every request to one of the four endpoints that delivers a JSON
\* body receives exactly one response, with status 200, 400 or 500: until
\* the handler returns there is no response and the handler has a step to
\* take, whatever way the upstream call settles; when it returns the
\* response has one of the three statuses, and nothing runs after it that
\* could answer again.
C29_ExactlyOneResponse ==
    JsonDelivered =>
        IF EndpointDone
        THEN Answered /\ ~HandlerCanStep
        ELSE Unanswered /\ HandlerCanStep

\* C29 witness: a metadata request with a JSON body whose completion call
\* was rejected has been answered with 500.
C29_Witness ==
    /\ svc = "seo"
    /\ svcReq.readable
    /\ svcpc = "done"
    /\ svcReply.kind = "rejects"
    /\ svcRes.status = 500

----------------------------------------------------------------------------
\* C30: the three copies of extractJsonFromResponse (article, title and
\* metadata service) return the same string for every input, and that
\* string is a contiguous substring of the input.
C30_CopiesEquivalent ==
    rpc = "done" =>
        /\ recovered = extractJsonFromResponseTitles(response)
        /\ recovered = extractJsonFromResponseSeo(response)
        /\ Contains(response, recovered)

\* C30 witness: an input with white space around a fenced block, of which
\* the copies return a proper part.
C30_Witness ==
    /\ rpc = "done"
    /\ recovered # <<>>
    /\ Len(recovered) < Len(trim(response))
    /\ fenceMatch(response, Fence).found
    /\ recovered = extractJsonFromResponseTitles(response)

=============================================================================
